---- MODULE Spec2Model ----
(***************************************************************************)
(* Voice-note application: the recording -> persistence -> transcription   *)
(* pipeline and the note/folder store of App (src/components/Snowfall.tsx, *)
(* from line 84 on), and the per-card audio playback / read-aloud logic of *)
(* NoteCard (src/components/NoteCard.tsx).                                 *)
(*                                                                         *)
(* The event loop is single-threaded: every action below is one event      *)
(* handler, or the part of an async function between two suspension        *)
(* points (await / event callback).                                        *)
(***************************************************************************)
EXTENDS Integers, Sequences, FiniteSets, TLC

\* ---------------------------------------------------------------- bounds
\* how many times startRecording is invoked in one behaviour of Spec; SpecRace
\* allows one invocation more
MaxStarts == 1
\* how many folders are ever created in one behaviour
MaxFolders == 1
\* how many read-aloud requests are issued in one behaviour
MaxRequests == 2
\* how many note cards the audio specification starts with
NumCards == 2
\* how many times the effect of the AudioVisualizer calls initAudio in one behaviour
MaxEffects == 3
\* how many notes the list of the sorting specification holds
MaxSortNotes == 3

\* ------------------------------------------------------------ value sets
Undefined == "undefined"
NoRec == 0
\* pinModal === null; while the modal is shown, pin is the text of its input
NoModal == [mode |-> "null", folderId |-> Undefined, error |-> Undefined, pin |-> ""]

FolderPool == <<"Work", "Home", "Misc", "Trips">>
FolderIds == {FolderPool[k] : k \in 1..MaxFolders}
BuiltinViews == {"all", "uncategorized", "favorites"}
Queries == {"", "meeting"}
Sections == {"summary", "transcription"}
\* the invocations, note positions and note ids a behaviour of any specification can hold
StartIds == 1..(MaxStarts + 1)
NoteIndexes == 1..(MaxStarts + 1 + NumCards)
NoteIdRange == 1..(MaxStarts + 1 + NumCards)
CardIds == 1..NumCards

VARIABLES
  \* ---- App state (Snowfall.tsx 144-207)
  notes,             \* Note[]   : sequence of [id, folderId]
  folders,           \* Folder[] : sequence of [id]
  createdFolders,    \* how many folder ids generateId has handed out
  activeView,
  searchQuery,
  status,            \* RecordingStatus
  stream,            \* React state `stream`: the invocation whose MediaStream it holds, or NoRec
  mediaRecorderRef,  \* mediaRecorderRef.current: the invocation whose recorder it holds, or NoRec
  rec,               \* per startRecording invocation: position, captured closure, device
  startsLeft,        \* how many more startRecording invocations the behaviour may hold
  idCounter,         \* number of note ids generateId has handed out
  blobStore,         \* AudioBlobStore: ids that hold a blob
  mimeSupported,     \* whether getSupportedMimeType() finds a type in this browser
  deletes,           \* deleteNote invocations suspended on deleteAudioBlob: [id, blobGone]
  wakeLockRef,       \* wakeLockRef.current: the invocation whose sentinel it holds, or NoRec
  stopIgnored,       \* history: some stopRecording call found nothing to stop
  unlockedFolderIds, \* string[] : folder ids unlocked in this session
  pinModal,          \* NoModal or [mode, folderId, error, pin]: pinModal of App and the
                     \* pin state of the PinModal it mounts (part_000 12)
  sortBy,            \* SortOption
  lastPinResult,     \* history: how the latest handlePinConfirm of the session ended
  \* ---- NoteCard state, per note id (NoteCard.tsx 59-80)
  mounted,
  localAudioUrl,
  isPlaying,
  audioEl,           \* the <audio> element: "paused" or "playing"
  ttsStatus,
  activeTtsSection,
  ttsAudioRef,       \* ttsAudioRef.current: a source id, or NoRec
  noteText,          \* per note id: the sections (summary, transcription) that have text
  speech,            \* read-aloud requests in issue order: [card, section, live, state,
                     \* superseded, inst]; inst names the card instance that issued the
                     \* request, by the index of the first request of that instance
  ttsContexts,       \* the card instances whose ttsContextRef.current holds an AudioContext
  \* ---- AudioVisualizer (AudioVisualizer.tsx 9-12, 44-48)
  visualizer,        \* "absent", or what App passes as stream: "stream" or "noStream"
  visRuns,           \* the initAudio calls in order: [live, isAborted, pc, ctx]; ctx is the
                     \* state of the AudioContext the call created
  audioCtxRef,       \* audioCtxRef.current of the shown instance: an initAudio call, or NoRec
  animationRef,      \* animationRef.current: the call whose draw has a frame scheduled, or NoRec
  \* ---- outside the React state
  localStorage,      \* per key (notes, folders): <<>> when the key is absent, else <<the JSON value>>
  cardCalls          \* the service calls of the note cards: [id, op, state, found], state
                     \* "pending" while the handler is suspended on the call, "done" after
                     \* ("failed" when the call threw); a translation has its langName too;
                     \* found (history): the updateNote of the handler met a note of that id

wakeVars == <<wakeLockRef, stopIgnored>>
lockVars == <<unlockedFolderIds, pinModal, sortBy, lastPinResult>>
storeVars == <<localStorage, cardCalls>>
visVars == <<visualizer, visRuns, audioCtxRef, animationRef>>
contextVars == <<ttsContexts, visualizer, visRuns, audioCtxRef, animationRef>>
appVars == <<notes, folders, createdFolders, activeView, searchQuery, status, stream,
             mediaRecorderRef, rec, startsLeft, idCounter, blobStore, deletes, mimeSupported,
             wakeLockRef, stopIgnored, unlockedFolderIds, pinModal, sortBy, lastPinResult>>
cardVars == <<mounted, localAudioUrl, isPlaying, audioEl, ttsStatus, activeTtsSection,
              ttsAudioRef, speech, noteText>>
vars == <<notes, folders, createdFolders, activeView, searchQuery, status, stream,
          mediaRecorderRef, rec, startsLeft, idCounter, blobStore, deletes, mimeSupported,
          wakeLockRef, stopIgnored, unlockedFolderIds, pinModal, sortBy, lastPinResult,
          mounted, localAudioUrl, isPlaying, audioEl, ttsStatus, activeTtsSection,
          ttsAudioRef, speech, noteText, localStorage, cardCalls,
          ttsContexts, visualizer, visRuns, audioCtxRef, animationRef>>

\* ------------------------------------------------------------ helpers
NoteIdsOf(ns) == {ns[k].id : k \in 1..Len(ns)}

RECURSIVE SeqFilterNotes(_, _)
\* prev.filter(n => n.id !== id)
SeqFilterNotes(ns, id) ==
  IF ns = <<>> THEN <<>>
  ELSE IF Head(ns).id = id THEN SeqFilterNotes(Tail(ns), id)
       ELSE <<Head(ns)>> \o SeqFilterNotes(Tail(ns), id)

RECURSIVE SeqFilterFolders(_, _)
\* prev.filter(f => f.id !== id)
SeqFilterFolders(fs, id) ==
  IF fs = <<>> THEN <<>>
  ELSE IF Head(fs).id = id THEN SeqFilterFolders(Tail(fs), id)
       ELSE <<Head(fs)>> \o SeqFilterFolders(Tail(fs), id)

\* JSON.stringify of an object leaves out the properties whose value is undefined
\* (folderId of a note, pin of a folder); the value written is the list of the
\* objects, in order
OptionalFields == {"folderId", "pin"}
JSONstringifyObject(r) ==
  [f \in {g \in DOMAIN r : ~(g \in OptionalFields /\ r[g] = Undefined)} |-> r[f]]
JSONstringify(list) == [k \in 1..Len(list) |-> JSONstringifyObject(list[k])]

\* JSON.parse gives the objects back without the properties that were left out; the
\* code reads such a property as undefined, which the model writes as Undefined
JSONparseObject(j, optional) ==
  [f \in DOMAIN j \cup optional |-> IF f \in DOMAIN j THEN j[f] ELSE Undefined]
JSONparse(json, optional) == [k \in 1..Len(json) |-> JSONparseObject(json[k], optional)]

\* What the recording that gets note id `id` holds: the title and transcription
\* transcribeAudio returns for it and its length in seconds.
TitlePool == <<"Banana", "apple", "Cherry", "Apple">>
TranscriptPool == <<"Team meeting at noon", "buy milk">>
DurationPool == <<30, 10, 30, 65>>
suggestedTitle(id) == TitlePool[((id - 1) % Len(TitlePool)) + 1]
transcriptionOf(id) == TranscriptPool[((id - 1) % Len(TranscriptPool)) + 1]
finalDuration(id) == DurationPool[((id - 1) % Len(DurationPool)) + 1]

\* Date.now() when a note is built: later than the timestamp of every note built
\* before (the notes a store starts with carry timestamps up to NumCards)
DateNow == NumCards + 1 + Cardinality({i \in DOMAIN rec : rec[i].pc = "created"})

\* the Note literal of recorder.onstop (297-310), and a Note as persisted earlier
NewNote(id, folderId, timestamp) ==
  [id |-> id, title |-> suggestedTitle(id), transcription |-> transcriptionOf(id),
   timestamp |-> timestamp, duration |-> finalDuration(id),
   isPinned |-> FALSE, isFavorite |-> FALSE, folderId |-> folderId]

\* ----------------------------------------------------- folder access control
Pins == {"1234", "0000"}
SortOptions == {"newest", "oldest", "longest", "shortest", "alphabetical"}
SearchInputs == {"", " ", "meeting", "AN", "zebra"}

RangeOf(seq) == {seq[k] : k \in 1..Len(seq)}

\* folders.find(f => f.id === folderId): whether it finds a folder, and the folder
hasFolder(fs, folderId) == \E k \in 1..Len(fs) : fs[k].id = folderId
findFolder(fs, folderId) ==
  fs[CHOOSE k \in 1..Len(fs) :
       fs[k].id = folderId /\ \A j \in 1..(k - 1) : fs[j].id # folderId]

\* isFolderLocked (357-361)
isFolderLocked(folderId) ==
  IF folderId = Undefined THEN FALSE
  ELSE /\ hasFolder(folders, folderId)
       /\ findFolder(folders, folderId).pin # Undefined
       /\ folderId \notin RangeOf(unlockedFolderIds)

\* folders.filter(f => f.pin && !unlockedFolderIds.includes(f.id)).map(f => f.id)
lockedFolderIds ==
  {folders[k].id : k \in {j \in 1..Len(folders) :
                            /\ folders[j].pin # Undefined
                            /\ folders[j].id \notin RangeOf(unlockedFolderIds)}}

\* String.prototype.trim, toLowerCase and includes on the strings of the model
trim(q) == IF q = " " THEN "" ELSE q
toLowerCase(t) ==
  CASE t = "Banana" -> "banana"
    [] t = "Cherry" -> "cherry"
    [] t = "Apple" -> "apple"
    [] t = "Untitled Note" -> "untitled note"
    [] t = "Team meeting at noon" -> "team meeting at noon"
    [] t = "AN" -> "an"
    [] OTHER -> t
includes(t, q) ==
  \/ q = ""
  \/ t = q
  \/ <<t, q>> \in {<<"banana", "an">>, <<"team meeting at noon", "meeting">>,
                    <<"team meeting at noon", " ">>, <<"buy milk", " ">>,
                    <<"untitled note", " ">>}

\* a.title.localeCompare(b.title): negative, zero or positive. The default collation
\* compares the letters first and, between titles that differ in case only, puts
\* the lower-case one first: apple < Apple < Banana < Cherry < Untitled Note
localeRank(t) ==
  CASE t = "apple" -> 1 [] t = "Apple" -> 2 [] t = "Banana" -> 3 [] t = "Cherry" -> 4
    [] t = "Untitled Note" -> 5
localeCompare(a, b) == localeRank(a) - localeRank(b)

\* the truth value of n.isPinned, which a note may lack (types.ts 19)
isPinnedOf(n) == "isPinned" \in DOMAIN n /\ n.isPinned

\* seeded fault: the comparator does not look at isPinned
compareNotes_IgnoresPinned(a, b, sort) ==
  CASE sort = "oldest" -> a.timestamp - b.timestamp
    [] sort = "longest" -> b.duration - a.duration
    [] sort = "shortest" -> a.duration - b.duration
    [] sort = "alphabetical" -> localeCompare(a.title, b.title)
    [] OTHER -> b.timestamp - a.timestamp

\* the comparator of result.sort (389-399)
compareNotes(a, b, sort) ==
  IF isPinnedOf(a) /\ ~isPinnedOf(b) THEN 0 - 1
  ELSE IF ~isPinnedOf(a) /\ isPinnedOf(b) THEN 1
  ELSE CASE sort = "oldest" -> a.timestamp - b.timestamp
         [] sort = "longest" -> b.duration - a.duration
         [] sort = "shortest" -> a.duration - b.duration
         [] sort = "alphabetical" -> localeCompare(a.title, b.title)
         [] OTHER -> b.timestamp - a.timestamp

RECURSIVE insertNote(_, _, _)
\* n placed behind every note of the sorted list it does not precede
insertNote(n, sorted, sort) ==
  IF sorted = <<>> THEN <<n>>
  ELSE IF compareNotes(n, Head(sorted), sort) < 0 THEN <<n>> \o sorted
       ELSE <<Head(sorted)>> \o insertNote(n, Tail(sorted), sort)

RECURSIVE sortNotes_Unstable(_, _)
\* seeded fault: a sort that puts notes of equal key in reverse input order
sortNotes_Unstable(ns, sort) ==
  IF ns = <<>> THEN <<>>
  ELSE insertNote(Head(ns), sortNotes_Unstable(Tail(ns), sort), sort)

RECURSIVE sortNotes(_, _)
\* Array.prototype.sort with compareNotes: a stable sort
sortNotes(ns, sort) ==
  IF ns = <<>> THEN <<>>
  ELSE insertNote(ns[Len(ns)], sortNotes(SubSeq(ns, 1, Len(ns) - 1), sort), sort)

\* seeded fault: the folder view does not look at the lock
filteredAndSortedNotes_FolderViewOpen(view, query, sort) ==
  LET inView(n) ==
        CASE view = "all" -> n.folderId = Undefined \/ n.folderId \notin lockedFolderIds
          [] view = "uncategorized" -> n.folderId = Undefined
          [] view = "favorites" ->
               n.isFavorite /\ (n.folderId = Undefined \/ n.folderId \notin lockedFolderIds)
          [] OTHER -> n.folderId = view
      matches(n) ==
        \/ includes(toLowerCase(n.title), toLowerCase(query))
        \/ includes(toLowerCase(n.transcription), toLowerCase(query))
      byView == SelectSeq(notes, inView)
      searched == IF trim(query) # "" THEN SelectSeq(byView, matches) ELSE byView
  IN  sortNotes(searched, sort)

\* seeded fault: the "all" view does not look at the lock
filteredAndSortedNotes_AllViewOpen(view, query, sort) ==
  LET inView(n) ==
        CASE view = "all" -> TRUE
          [] view = "uncategorized" -> n.folderId = Undefined
          [] view = "favorites" ->
               n.isFavorite /\ (n.folderId = Undefined \/ n.folderId \notin lockedFolderIds)
          [] OTHER -> n.folderId = view
      matches(n) ==
        \/ includes(toLowerCase(n.title), toLowerCase(query))
        \/ includes(toLowerCase(n.transcription), toLowerCase(query))
      byView == SelectSeq(notes, inView)
      searched == IF trim(query) # "" THEN SelectSeq(byView, matches) ELSE byView
  IN  IF view \notin BuiltinViews /\ view \in lockedFolderIds
        THEN <<>>
        ELSE sortNotes(searched, sort)

\* filteredAndSortedNotes (363-401) as a function of the view, the query and the
\* sort option, over the current notes, folders and unlockedFolderIds
filteredAndSortedNotes(view, query, sort) ==
  LET inView(n) ==
        CASE view = "all" -> n.folderId = Undefined \/ n.folderId \notin lockedFolderIds
          [] view = "uncategorized" -> n.folderId = Undefined
          [] view = "favorites" ->
               n.isFavorite /\ (n.folderId = Undefined \/ n.folderId \notin lockedFolderIds)
          [] OTHER -> n.folderId = view
      matches(n) ==
        \/ includes(toLowerCase(n.title), toLowerCase(query))
        \/ includes(toLowerCase(n.transcription), toLowerCase(query))
      byView == SelectSeq(notes, inView)
      searched == IF trim(query) # "" THEN SelectSeq(byView, matches) ELSE byView
  IN  IF view \notin BuiltinViews /\ view \in lockedFolderIds
        THEN <<>>
        ELSE sortNotes(searched, sort)

\* what the main view lists
visibleNotes == filteredAndSortedNotes(activeView, searchQuery, sortBy)

\* isViewLocked (475): the locked panel is shown in place of the note cards
isViewLocked ==
  /\ hasFolder(folders, activeView)
  /\ findFolder(folders, activeView).pin # Undefined
  /\ activeView \notin RangeOf(unlockedFolderIds)

\* the note cards rendered (594-597)
renderedNoteIds == IF isViewLocked THEN {} ELSE NoteIdsOf(visibleNotes)

\* { ...n, ...updates }
Merge(n, updates) ==
  [f \in DOMAIN n \cup DOMAIN updates |-> IF f \in DOMAIN updates THEN updates[f] ELSE n[f]]

\* seeded fault: an update for an id that no note has adds a note with that id
updateNote_Upserts(ns, id, updates) ==
  IF \E j \in 1..Len(ns) : ns[j].id = id
    THEN [j \in 1..Len(ns) |-> IF ns[j].id = id THEN Merge(ns[j], updates) ELSE ns[j]]
    ELSE Append(ns, Merge(NewNote(id, Undefined, 0), updates))

\* seeded fault: an update for an id that no note has is applied to every note
updateNote_TouchesAll(ns, id, updates) ==
  IF \E j \in 1..Len(ns) : ns[j].id = id
    THEN [j \in 1..Len(ns) |-> IF ns[j].id = id THEN Merge(ns[j], updates) ELSE ns[j]]
    ELSE [j \in 1..Len(ns) |-> Merge(ns[j], updates)]

\* prev.map(n => n.id === id ? { ...n, ...updates } : n)  (updateNote, 463-465)
updateNote(ns, id, updates) ==
  [j \in 1..Len(ns) |-> IF ns[j].id = id THEN Merge(ns[j], updates) ELSE ns[j]]

RECURSIVE SeqFilterIds(_, _)
\* prev.filter(id => id !== folderId)
SeqFilterIds(ids, folderId) ==
  IF ids = <<>> THEN <<>>
  ELSE IF Head(ids) = folderId THEN SeqFilterIds(Tail(ids), folderId)
       ELSE <<Head(ids)>> \o SeqFilterIds(Tail(ids), folderId)

\* the initial state of notes and folders (144-152): the list parsed from the key,
\* or [] when the key is absent
loadNotes ==
  IF localStorage.notes = <<>> THEN <<>> ELSE JSONparse(localStorage.notes[1], {"folderId"})
loadFolders ==
  IF localStorage.folders = <<>> THEN <<>> ELSE JSONparse(localStorage.folders[1], {"pin"})

\* The persistence effects (209-210). A handler that calls setNotes (setFolders)
\* gives notes (folders) a new array, and the effect that follows the render writes
\* it under its key before any other handler runs.
persistNotes == localStorage' = [localStorage EXCEPT !.notes = <<JSONstringify(notes')>>]
persistFolders == localStorage' = [localStorage EXCEPT !.folders = <<JSONstringify(folders')>>]
persistBoth ==
  localStorage' = [notes |-> <<JSONstringify(notes')>>, folders |-> <<JSONstringify(folders')>>]
\* for a handler that calls a setter on one branch only, and changes the list
\* whenever it calls it
persistChanged ==
  localStorage' = [notes |-> IF notes' # notes THEN <<JSONstringify(notes')>>
                                                ELSE localStorage.notes,
                   folders |-> IF folders' # folders THEN <<JSONstringify(folders')>>
                                                      ELSE localStorage.folders]

\* what a page that has rendered once leaves in localStorage, and the cards of a
\* page on which no card handler is suspended
\* no card has created an AudioContext (NoteCard.tsx 76); no AudioVisualizer is shown
InitContexts ==
  /\ ttsContexts = {}
  /\ visualizer = "absent"
  /\ visRuns = <<>>
  /\ audioCtxRef = NoRec
  /\ animationRef = NoRec

InitStore ==
  /\ localStorage = [notes |-> <<JSONstringify(notes)>>, folders |-> <<JSONstringify(folders)>>]
  /\ cardCalls = {}

\* the PIN modal covers the page (part_000 PinModal: fixed inset-0 z-[100]); the
\* controls under it take no click
NoOverlay == pinModal = NoModal

\* seeded fault: the target folder is taken from the view that is active when the
\* run completes, not from the view captured when startRecording was invoked
targetFolder_ReadsCurrentView(view) ==
  IF activeView \in BuiltinViews THEN Undefined ELSE activeView

\* (activeView === 'all' || ... ) ? undefined : activeView, with activeView the
\* value captured by the closure of the startRecording invocation
targetFolder(view) ==
  IF view \in BuiltinViews THEN Undefined ELSE view

\* A startRecording invocation and the pipeline run of its recorder. pc is its
\* position: "getUserMedia" (suspended), "denied" / "formatError" / "initError"
\* (startRecording returned without a recording), "recording", "stopping" (stop()
\* called, stop event queued), "saving" / "encoding" / "transcribing" (the run is
\* suspended on that call), and the positions below, where the run has ended.
TerminalPcs == {"created", "storageError", "transcribeError", "crashed"}

\* view: the activeView in the closure; track: the input device ("none", "live",
\* "stopped"); noteId: the id generateId gave the run; alerted: an alert() was shown;
\* saved: how saveAudioBlob ended; transcribeCalled: transcribeAudio was called;
\* lock: the wake-lock request of requestWakeLock and its sentinel ("none", "pending",
\* "failed", "held", "releasing": release() called and releaseWakeLock suspended on
\* it, "released"); stopDuring: history, stopRecording was called while the
\* invocation was suspended on getUserMedia
NewInvocation(view) ==
  [pc |-> "getUserMedia", view |-> view, track |-> "none", noteId |-> 0,
   alerted |-> FALSE, saved |-> "none", transcribeCalled |-> FALSE,
   lock |-> "none", stopDuring |-> FALSE]

\* ------------------------------------------------------------------ Init
InitAppWith(starts) ==
  /\ notes = <<>>
  /\ folders = <<>>
  /\ createdFolders = 0
  /\ activeView = "all"
  /\ searchQuery = ""
  /\ status = "IDLE"
  /\ stream = NoRec
  /\ mediaRecorderRef = NoRec
  /\ rec = <<>>
  /\ startsLeft = starts
  /\ idCounter = 0
  /\ blobStore = {}
  /\ deletes = {}
  /\ mimeSupported \in BOOLEAN
  /\ wakeLockRef = NoRec
  /\ stopIgnored = FALSE
  /\ unlockedFolderIds = <<>>
  /\ pinModal = NoModal
  /\ sortBy = "newest"
  /\ lastPinResult = "none"
  /\ InitStore
  /\ InitContexts

InitCardsEmpty ==
  /\ mounted = <<>>
  /\ localAudioUrl = <<>>
  /\ isPlaying = <<>>
  /\ audioEl = <<>>
  /\ ttsStatus = <<>>
  /\ activeTtsSection = <<>>
  /\ ttsAudioRef = <<>>
  /\ speech = <<>>
  /\ noteText = <<>>

Init == InitAppWith(MaxStarts) /\ InitCardsEmpty

\* ------------------------------------------------------- view and folders
\* sidebar buttons: setActiveView('all' | 'favorites' | 'uncategorized')
setActiveView(v) ==
  /\ NoOverlay
  /\ v \in BuiltinViews
  /\ activeView' = v
  /\ UNCHANGED <<cardVars, contextVars, wakeVars, lockVars, mimeSupported, notes, folders, createdFolders, searchQuery, status, stream,
                 mediaRecorderRef, rec, startsLeft, idCounter, blobStore, deletes>>
  /\ UNCHANGED storeVars

\* handleFolderClick (415-421)
handleFolderClick(k) ==
  /\ NoOverlay
  /\ k \in 1..Len(folders)
  /\ activeView' = folders[k].id
  /\ pinModal' = IF folders[k].pin # Undefined /\ folders[k].id \notin RangeOf(unlockedFolderIds)
                   THEN [mode |-> "enter", folderId |-> folders[k].id, error |-> Undefined, pin |-> ""]
                   ELSE pinModal
  /\ UNCHANGED <<cardVars, contextVars, wakeVars, mimeSupported, notes, folders, createdFolders, searchQuery, status, stream,
                 mediaRecorderRef, rec, startsLeft, idCounter, blobStore, deletes,
                 unlockedFolderIds, sortBy, lastPinResult>>
  /\ UNCHANGED storeVars

setSearchQuery(q) ==
  /\ q \in Queries
  /\ q # searchQuery
  /\ searchQuery' = q
  /\ UNCHANGED <<cardVars, contextVars, wakeVars, lockVars, mimeSupported, notes, folders, createdFolders, activeView, status, stream,
                 mediaRecorderRef, rec, startsLeft, idCounter, blobStore, deletes>>
  /\ UNCHANGED storeVars

createFolder ==
  /\ NoOverlay
  /\ createdFolders < MaxFolders
  /\ LET id == FolderPool[createdFolders + 1] IN
       /\ folders' = Append(folders, [id |-> id, pin |-> Undefined])
       /\ activeView' = id
  /\ createdFolders' = createdFolders + 1
  /\ UNCHANGED <<cardVars, contextVars, wakeVars, lockVars, mimeSupported, notes, searchQuery, status, stream, mediaRecorderRef, rec, startsLeft,
                 idCounter, blobStore, deletes>>
  /\ persistFolders
  /\ UNCHANGED cardCalls

\* seeded fault: deleting a folder deletes the notes inside it
deleteFolder_DropsNotes(k) ==
  /\ NoOverlay
  /\ k \in 1..Len(folders)
  /\ LET id == folders[k].id IN
       /\ folders' = SeqFilterFolders(folders, id)
       /\ notes' = SelectSeq(notes, LAMBDA n : n.folderId # id)
       /\ activeView' = IF activeView = id THEN "all" ELSE activeView
  /\ UNCHANGED <<cardVars, contextVars, wakeVars, lockVars, mimeSupported, createdFolders, searchQuery, status, stream, mediaRecorderRef, rec,
                 startsLeft, idCounter, blobStore, deletes>>
  /\ persistBoth
  /\ UNCHANGED cardCalls

deleteFolder(k) ==
  /\ NoOverlay
  /\ k \in 1..Len(folders)
  /\ LET id == folders[k].id IN
       /\ folders' = SeqFilterFolders(folders, id)
       /\ notes' = [j \in 1..Len(notes) |->
                      IF notes[j].folderId = id
                        THEN [notes[j] EXCEPT !.folderId = Undefined]
                        ELSE notes[j]]
       /\ activeView' = IF activeView = id THEN "all" ELSE activeView
  /\ UNCHANGED <<cardVars, contextVars, wakeVars, lockVars, mimeSupported, createdFolders, searchQuery, status, stream, mediaRecorderRef, rec,
                 startsLeft, idCounter, blobStore, deletes>>
  /\ persistBoth
  /\ UNCHANGED cardCalls

\* the state of the recording pipeline, which the folder handlers leave alone
pipelineVars == <<status, stream, mediaRecorderRef, rec, startsLeft, idCounter, blobStore,
                  deletes, mimeSupported, wakeLockRef, stopIgnored>>

\* seeded fault: removing the PIN leaves the folder id in unlockedFolderIds
toggleFolderLock_KeepsUnlocked(k) ==
  /\ NoOverlay
  /\ k \in 1..Len(folders)
  /\ LET folder == folders[k] IN
       IF folder.pin # Undefined
         THEN /\ folders' = [j \in 1..Len(folders) |->
                               IF folders[j].id = folder.id
                                 THEN [folders[j] EXCEPT !.pin = Undefined]
                                 ELSE folders[j]]
              /\ UNCHANGED <<unlockedFolderIds, pinModal>>
         ELSE /\ pinModal' = [mode |-> "set", folderId |-> folder.id, error |-> Undefined, pin |-> ""]
              /\ UNCHANGED <<folders, unlockedFolderIds>>
  /\ UNCHANGED <<cardVars, contextVars, pipelineVars, notes, createdFolders, activeView, searchQuery,
                 sortBy, lastPinResult>>
  /\ persistChanged
  /\ UNCHANGED cardCalls

\* toggleFolderLock (423-433): on a folder with a PIN, once confirm() is accepted,
\* the PIN is cleared and the id filtered from unlockedFolderIds; on a folder
\* without a PIN the modal opens in mode 'set'
toggleFolderLock(k) ==
  /\ NoOverlay
  /\ k \in 1..Len(folders)
  /\ LET folder == folders[k] IN
       IF folder.pin # Undefined
         THEN /\ folders' = [j \in 1..Len(folders) |->
                               IF folders[j].id = folder.id
                                 THEN [folders[j] EXCEPT !.pin = Undefined]
                                 ELSE folders[j]]
              /\ unlockedFolderIds' = SeqFilterIds(unlockedFolderIds, folder.id)
              /\ UNCHANGED pinModal
         ELSE /\ pinModal' = [mode |-> "set", folderId |-> folder.id, error |-> Undefined, pin |-> ""]
              /\ UNCHANGED <<folders, unlockedFolderIds>>
  /\ UNCHANGED <<cardVars, contextVars, pipelineVars, notes, createdFolders, activeView, searchQuery,
                 sortBy, lastPinResult>>
  /\ persistChanged
  /\ UNCHANGED cardCalls

\* seeded fault: a successful unlock also clears the PIN of the folder
handlePinConfirm_ForgetsPin(pin) ==
  /\ pinModal # NoModal
  /\ LET mode == pinModal.mode
         folderId == pinModal.folderId
     IN IF mode = "set"
          THEN /\ folders' = [j \in 1..Len(folders) |->
                                IF folders[j].id = folderId
                                  THEN [folders[j] EXCEPT !.pin = pin]
                                  ELSE folders[j]]
               /\ unlockedFolderIds' = Append(unlockedFolderIds, folderId)
               /\ pinModal' = NoModal
               /\ lastPinResult' = "set"
          ELSE IF hasFolder(folders, folderId) /\ findFolder(folders, folderId).pin = pin
                 THEN /\ unlockedFolderIds' = Append(unlockedFolderIds, folderId)
                      /\ folders' = [j \in 1..Len(folders) |->
                                       IF folders[j].id = folderId
                                         THEN [folders[j] EXCEPT !.pin = Undefined]
                                         ELSE folders[j]]
                      /\ pinModal' = NoModal
                      /\ lastPinResult' = "unlocked"
                 ELSE /\ pinModal' = [pinModal EXCEPT !.error = "Incorrect PIN"]
                      /\ lastPinResult' = "wrong"
                      /\ UNCHANGED <<folders, unlockedFolderIds>>
  /\ UNCHANGED <<cardVars, contextVars, pipelineVars, notes, createdFolders, activeView, searchQuery, sortBy>>
  /\ persistChanged
  /\ UNCHANGED cardCalls

\* seeded fault: in mode 'enter' any PIN is taken for the folder's PIN
handlePinConfirm_AcceptsAny(pin) ==
  /\ pinModal # NoModal
  /\ LET mode == pinModal.mode
         folderId == pinModal.folderId
     IN IF mode = "set"
          THEN /\ folders' = [j \in 1..Len(folders) |->
                                IF folders[j].id = folderId
                                  THEN [folders[j] EXCEPT !.pin = pin]
                                  ELSE folders[j]]
               /\ unlockedFolderIds' = Append(unlockedFolderIds, folderId)
               /\ pinModal' = NoModal
               /\ lastPinResult' = "set"
          ELSE IF hasFolder(folders, folderId)
                 THEN /\ unlockedFolderIds' = Append(unlockedFolderIds, folderId)
                      /\ pinModal' = NoModal
                      /\ lastPinResult' = "unlocked"
                      /\ UNCHANGED folders
                 ELSE /\ pinModal' = [pinModal EXCEPT !.error = "Incorrect PIN"]
                      /\ lastPinResult' = "wrong"
                      /\ UNCHANGED <<folders, unlockedFolderIds>>
  /\ UNCHANGED <<cardVars, contextVars, pipelineVars, notes, createdFolders, activeView, searchQuery, sortBy>>
  /\ persistChanged
  /\ UNCHANGED cardCalls

\* seeded fault: in mode 'set' the folder is not added to unlockedFolderIds
handlePinConfirm_SetLeavesLocked(pin) ==
  /\ pinModal # NoModal
  /\ LET mode == pinModal.mode
         folderId == pinModal.folderId
     IN IF mode = "set"
          THEN /\ folders' = [j \in 1..Len(folders) |->
                                IF folders[j].id = folderId
                                  THEN [folders[j] EXCEPT !.pin = pin]
                                  ELSE folders[j]]
               /\ pinModal' = NoModal
               /\ lastPinResult' = "set"
               /\ UNCHANGED unlockedFolderIds
          ELSE IF hasFolder(folders, folderId) /\ findFolder(folders, folderId).pin = pin
                 THEN /\ unlockedFolderIds' = Append(unlockedFolderIds, folderId)
                      /\ pinModal' = NoModal
                      /\ lastPinResult' = "unlocked"
                      /\ UNCHANGED folders
                 ELSE /\ pinModal' = [pinModal EXCEPT !.error = "Incorrect PIN"]
                      /\ lastPinResult' = "wrong"
                      /\ UNCHANGED <<folders, unlockedFolderIds>>
  /\ UNCHANGED <<cardVars, contextVars, pipelineVars, notes, createdFolders, activeView, searchQuery, sortBy>>
  /\ persistChanged
  /\ UNCHANGED cardCalls

\* handlePinConfirm (435-452), with the PIN the modal hands over
handlePinConfirm(pin) ==
  /\ pinModal # NoModal
  /\ LET mode == pinModal.mode
         folderId == pinModal.folderId
     IN IF mode = "set"
          THEN /\ folders' = [j \in 1..Len(folders) |->
                                IF folders[j].id = folderId
                                  THEN [folders[j] EXCEPT !.pin = pin]
                                  ELSE folders[j]]
               /\ unlockedFolderIds' = Append(unlockedFolderIds, folderId)
               /\ pinModal' = NoModal
               /\ lastPinResult' = "set"
          ELSE IF hasFolder(folders, folderId) /\ findFolder(folders, folderId).pin = pin
                 THEN /\ unlockedFolderIds' = Append(unlockedFolderIds, folderId)
                      /\ pinModal' = NoModal
                      /\ lastPinResult' = "unlocked"
                      /\ UNCHANGED folders
                 ELSE /\ pinModal' = [pinModal EXCEPT !.error = "Incorrect PIN"]
                      /\ lastPinResult' = "wrong"
                      /\ UNCHANGED <<folders, unlockedFolderIds>>
  /\ UNCHANGED <<cardVars, contextVars, pipelineVars, notes, createdFolders, activeView, searchQuery, sortBy>>
  /\ persistChanged
  /\ UNCHANGED cardCalls

\* What the input of the modal can hold after an edit (e.target.value), and
\* String.prototype.replace(/\D/g, '') and .length on the strings of the model. The
\* input has maxLength 4; "12345" is the value of a browser that does not enforce it.
RawInputs == {"", "12", "1234", "0000", "12a4", "abcd", "12345"}
replaceNonDigits(t) ==
  CASE t = "12a4" -> "124"
    [] t = "abcd" -> ""
    [] OTHER -> t
length(t) ==
  CASE t = "" -> 0
    [] t = "12" -> 2
    [] t = "124" -> 3
    [] t \in {"1234", "0000", "12a4", "abcd"} -> 4
    [] t = "12345" -> 5

\* seeded fault: the input keeps the characters that are not digits
pinOnChange_KeepsLetters(raw) ==
  /\ pinModal # NoModal
  /\ pinModal' = IF length(raw) <= 4 THEN [pinModal EXCEPT !.pin = raw] ELSE pinModal
  /\ pinModal' # pinModal
  /\ UNCHANGED <<cardVars, contextVars, pipelineVars, notes, folders, createdFolders, activeView, searchQuery,
                 unlockedFolderIds, sortBy, lastPinResult, storeVars>>

\* onChange of the input of the modal (part_000 56-59)
pinOnChange(raw) ==
  /\ pinModal # NoModal
  /\ LET val == replaceNonDigits(raw) IN
       pinModal' = IF length(val) <= 4 THEN [pinModal EXCEPT !.pin = val] ELSE pinModal
  /\ pinModal' # pinModal
  /\ UNCHANGED <<cardVars, contextVars, pipelineVars, notes, folders, createdFolders, activeView, searchQuery,
                 unlockedFolderIds, sortBy, lastPinResult, storeVars>>

\* handleSubmit of the modal (part_000 14-19): onConfirm(pin) when pin.length === 4
handleSubmit ==
  /\ pinModal # NoModal
  /\ length(pinModal.pin) = 4
  /\ handlePinConfirm(pinModal.pin)

\* onCancel of the modal (485-489)
pinModalCancel ==
  /\ pinModal # NoModal
  /\ pinModal' = NoModal
  /\ activeView' = IF pinModal.mode = "enter" THEN "all" ELSE activeView
  /\ UNCHANGED <<cardVars, contextVars, pipelineVars, notes, folders, createdFolders, searchQuery,
                 unlockedFolderIds, sortBy, lastPinResult>>
  /\ UNCHANGED storeVars

\* the folder menu of a rendered note card (NoteCard.tsx 362-368):
\* onMoveToFolder(noteId, folderId) = updateNote(noteId, { folderId })
onMoveToFolder(id, folderId) ==
  /\ NoOverlay
  /\ id \in renderedNoteIds
  /\ folderId = Undefined \/ hasFolder(folders, folderId)
  /\ notes' = updateNote(notes, id, [folderId |-> folderId])
  /\ notes' # notes
  /\ UNCHANGED <<cardVars, contextVars, pipelineVars, lockVars, folders, createdFolders, activeView, searchQuery>>
  /\ persistNotes
  /\ UNCHANGED cardCalls

\* toggleFavorite of a rendered note card (NoteCard.tsx 266-269)
toggleFavorite(id) ==
  /\ NoOverlay
  /\ id \in renderedNoteIds
  /\ \E k \in 1..Len(notes) :
       /\ notes[k].id = id
       /\ notes' = updateNote(notes, id, [isFavorite |-> ~notes[k].isFavorite])
  /\ UNCHANGED <<cardVars, contextVars, pipelineVars, lockVars, folders, createdFolders, activeView, searchQuery>>
  /\ persistNotes
  /\ UNCHANGED cardCalls

\* onTogglePin of a rendered note card (Snowfall.tsx 596, NoteCard.tsx 373):
\* updateNote(id, { isPinned: !notes.find(n => n.id === id)?.isPinned })
onTogglePin(id) ==
  /\ NoOverlay
  /\ id \in renderedNoteIds
  /\ \E k \in 1..Len(notes) :
       /\ notes[k].id = id
       /\ notes' = updateNote(notes, id, [isPinned |-> ~isPinnedOf(notes[k])])
  /\ persistNotes
  /\ UNCHANGED <<cardVars, contextVars, pipelineVars, lockVars, folders, createdFolders, activeView, searchQuery,
                 cardCalls>>

\* seeded fault: reTitleNote has no fallback title
reTitleNote_NoFallback(id, ok) == TitlePool[(id % Len(TitlePool)) + 1]

\* what reTitleNote returns (geminiService.ts 63-75): the trimmed text of the
\* response, or "Untitled Note" when the call failed or the text is empty
reTitleNote(id, ok) == IF ok THEN TitlePool[(id % Len(TitlePool)) + 1] ELSE "Untitled Note"

\* isRetitling of the card of note id: true from setIsRetitling(true) (244) to the
\* finally of handleReTitle (248-250)
isRetitling(id) ==
  \E c \in cardCalls : c.id = id /\ c.op = "retitle" /\ c.state = "pending"

\* handleReTitle of a rendered note card up to its await (NoteCard.tsx 242-246)
handleReTitle(id) ==
  /\ NoOverlay
  /\ id \in renderedNoteIds
  /\ \A c \in cardCalls : ~(c.id = id /\ c.op = "retitle" /\ c.state = "pending")
  /\ cardCalls' = {c \in cardCalls : ~(c.id = id /\ c.op = "retitle")}
                    \cup {[id |-> id, op |-> "retitle", state |-> "pending", found |-> FALSE]}
  /\ UNCHANGED <<cardVars, contextVars, pipelineVars, lockVars, notes, folders, createdFolders, activeView,
                 searchQuery, localStorage>>

\* reTitleNote returned: onUpdate(note.id, { title: newTitle }) with the note the card
\* was rendered with, whether or not the list still holds it (NoteCard.tsx 246-250)
reTitleNoteReturn(id, ok) ==
  /\ [id |-> id, op |-> "retitle", state |-> "pending", found |-> FALSE] \in cardCalls
  /\ notes' = updateNote(notes, id, [title |-> reTitleNote(id, ok)])
  /\ cardCalls' = (cardCalls \ {[id |-> id, op |-> "retitle", state |-> "pending", found |-> FALSE]})
                    \cup {[id |-> id, op |-> "retitle", state |-> "done",
                            found |-> id \in NoteIdsOf(notes)]}
  /\ persistNotes
  /\ UNCHANGED <<cardVars, contextVars, pipelineVars, lockVars, folders, createdFolders, activeView, searchQuery>>

\* the languages of the translate menu that the model offers (NoteCard.tsx 16-26)
Languages == {"Spanish", "French"}

\* what translateText resolves with (geminiService.ts 77-86): the trimmed text of the
\* response, or "" when the response has no text
translateText(langName, hasText) ==
  IF ~hasText THEN ""
  ELSE IF langName = "Spanish" THEN "hola" ELSE "bonjour"

\* isTranslating of the card of note id: true from setIsTranslating(true) (254) to
\* the finally of handleTranslate (261-263)
isTranslating(id) ==
  \E c \in cardCalls : c.id = id /\ c.op = "translate" /\ c.state = "pending"

\* handleTranslate of a rendered note card up to its await (NoteCard.tsx 253-257);
\* a card has one translation under way at a time
handleTranslate(id, langName) ==
  /\ NoOverlay
  /\ id \in renderedNoteIds
  /\ ~isTranslating(id)
  /\ cardCalls' = {c \in cardCalls : ~(c.id = id /\ c.op = "translate")}
                    \cup {[id |-> id, op |-> "translate", state |-> "pending",
                            found |-> FALSE, langName |-> langName]}
  /\ UNCHANGED <<cardVars, contextVars, pipelineVars, lockVars, notes, folders, createdFolders, activeView,
                 searchQuery, localStorage>>

\* seeded fault: the language label is set without the translated text
translateTextResolve_LabelOnly(id, hasText) ==
  \E c \in cardCalls :
    /\ c.id = id /\ c.op = "translate" /\ c.state = "pending"
    /\ notes' = updateNote(notes, id, [translatedLanguage |-> c.langName])
    /\ cardCalls' = (cardCalls \ {c})
                      \cup {[c EXCEPT !.state = "done", !.found = id \in NoteIdsOf(notes)]}
    /\ persistNotes
    /\ UNCHANGED <<cardVars, contextVars, pipelineVars, lockVars, folders, createdFolders, activeView, searchQuery>>

\* translateText resolved: onUpdate(note.id, { translatedTranscription,
\* translatedLanguage }) with the note the card was rendered with, then the finally
\* (NoteCard.tsx 257-263)
translateTextResolve(id, hasText) ==
  \E c \in cardCalls :
    /\ c.id = id /\ c.op = "translate" /\ c.state = "pending"
    /\ notes' = updateNote(notes, id,
                           [translatedTranscription |-> translateText(c.langName, hasText),
                            translatedLanguage |-> c.langName])
    /\ cardCalls' = (cardCalls \ {c})
                      \cup {[c EXCEPT !.state = "done", !.found = id \in NoteIdsOf(notes)]}
    /\ persistNotes
    /\ UNCHANGED <<cardVars, contextVars, pipelineVars, lockVars, folders, createdFolders, activeView, searchQuery>>

\* translateText threw (geminiService.ts 87-90): the catch alerts, the finally clears
\* isTranslating (NoteCard.tsx 259-263); onUpdate is not called
translateTextReject(id) ==
  \E c \in cardCalls :
    /\ c.id = id /\ c.op = "translate" /\ c.state = "pending"
    /\ cardCalls' = (cardCalls \ {c}) \cup {[c EXCEPT !.state = "failed"]}
    /\ UNCHANGED <<cardVars, contextVars, pipelineVars, lockVars, notes, folders, createdFolders, activeView,
                   searchQuery, localStorage>>

\* handleReset (228-237), confirmed: localStorage.clear() and
\* indexedDB.deleteDatabase; the page reloads when the request has ended, or after a
\* second. The React state is left as it is until then. The database is deleted
\* before the next handler runs, or not before the page is gone (the request is
\* blocked by an open connection, or fails).
handleReset(databaseDeleted) ==
  /\ NoOverlay
  /\ localStorage' = [notes |-> <<>>, folders |-> <<>>]
  /\ blobStore' = IF databaseDeleted THEN {} ELSE blobStore
  /\ UNCHANGED <<cardVars, contextVars, wakeVars, lockVars, notes, folders, createdFolders, activeView,
                 searchQuery, status, stream, mediaRecorderRef, rec, startsLeft, idCounter,
                 deletes, mimeSupported, cardCalls>>

\* seeded fault: unlockedFolderIds survives the reload
reload_KeepsUnlocked ==
  /\ activeView' = "all"
  /\ searchQuery' = ""
  /\ sortBy' = "newest"
  /\ UNCHANGED unlockedFolderIds
  /\ pinModal' = NoModal
  /\ lastPinResult' = "none"
  /\ status' = "IDLE"
  /\ stream' = NoRec
  /\ mediaRecorderRef' = NoRec
  /\ wakeLockRef' = NoRec
  /\ rec' = [i \in DOMAIN rec |->
               [rec[i] EXCEPT !.pc = IF @ \in TerminalPcs \cup {"denied", "formatError", "initError"}
                                       THEN @ ELSE "unloaded",
                              !.track = IF @ = "live" THEN "stopped" ELSE @,
                              !.lock = IF @ \in {"pending", "held", "releasing"}
                                         THEN "released" ELSE @]]
  /\ deletes' = {}
  /\ mounted' = [n \in DOMAIN mounted |-> TRUE]
  /\ localAudioUrl' = [n \in DOMAIN localAudioUrl |-> FALSE]
  /\ isPlaying' = [n \in DOMAIN isPlaying |-> FALSE]
  /\ audioEl' = [n \in DOMAIN audioEl |-> "paused"]
  /\ ttsStatus' = [n \in DOMAIN ttsStatus |-> "idle"]
  /\ activeTtsSection' = [n \in DOMAIN activeTtsSection |-> Undefined]
  /\ ttsAudioRef' = [n \in DOMAIN ttsAudioRef |-> NoRec]
  /\ speech' = <<>>
  /\ ttsContexts' = {}
  /\ visualizer' = "absent"
  /\ visRuns' = <<>>
  /\ audioCtxRef' = NoRec
  /\ animationRef' = NoRec
  /\ notes' = loadNotes
  /\ folders' = loadFolders
  /\ persistBoth
  /\ cardCalls' = {}
  /\ UNCHANGED <<createdFolders, startsLeft, idCounter, blobStore, mimeSupported,
                 stopIgnored, noteText>>

\* The page is loaded again: notes and folders are read from localStorage (144-152)
\* and written back by the effects of the first render (209-210), every other piece
\* of React state starts from its initial value (154-207), and the closures and
\* cards of the old page are gone.
reload ==
  /\ activeView' = "all"
  /\ searchQuery' = ""
  /\ sortBy' = "newest"
  /\ unlockedFolderIds' = <<>>
  /\ pinModal' = NoModal
  /\ lastPinResult' = "none"
  /\ status' = "IDLE"
  /\ stream' = NoRec
  /\ mediaRecorderRef' = NoRec
  /\ wakeLockRef' = NoRec
  /\ rec' = [i \in DOMAIN rec |->
               [rec[i] EXCEPT !.pc = IF @ \in TerminalPcs \cup {"denied", "formatError", "initError"}
                                       THEN @ ELSE "unloaded",
                              !.track = IF @ = "live" THEN "stopped" ELSE @,
                              !.lock = IF @ \in {"pending", "held", "releasing"}
                                         THEN "released" ELSE @]]
  /\ deletes' = {}
  /\ mounted' = [n \in DOMAIN mounted |-> TRUE]
  /\ localAudioUrl' = [n \in DOMAIN localAudioUrl |-> FALSE]
  /\ isPlaying' = [n \in DOMAIN isPlaying |-> FALSE]
  /\ audioEl' = [n \in DOMAIN audioEl |-> "paused"]
  /\ ttsStatus' = [n \in DOMAIN ttsStatus |-> "idle"]
  /\ activeTtsSection' = [n \in DOMAIN activeTtsSection |-> Undefined]
  /\ ttsAudioRef' = [n \in DOMAIN ttsAudioRef |-> NoRec]
  /\ speech' = <<>>
  /\ ttsContexts' = {}
  /\ visualizer' = "absent"
  /\ visRuns' = <<>>
  /\ audioCtxRef' = NoRec
  /\ animationRef' = NoRec
  /\ notes' = loadNotes
  /\ folders' = loadFolders
  /\ persistBoth
  /\ cardCalls' = {}
  /\ UNCHANGED <<createdFolders, startsLeft, idCounter, blobStore, mimeSupported,
                 stopIgnored, noteText>>

\* ------------------------------------------------------------- recording
\* The record button is rendered only while status is IDLE (Snowfall.tsx 611-618);
\* startRecording itself has no guard. The invocation suspends on getUserMedia; its
\* closure keeps the activeView of the render it was created in.
startRecording ==
  /\ status = "IDLE"
  /\ startsLeft > 0
  /\ startsLeft' = startsLeft - 1
  /\ rec' = Append(rec, NewInvocation(activeView))
  /\ UNCHANGED <<cardVars, contextVars, wakeVars, lockVars, mimeSupported, notes, folders, createdFolders, activeView, searchQuery, status, stream,
                 mediaRecorderRef, idCounter, blobStore, deletes>>
  /\ UNCHANGED storeVars

\* getUserMedia rejects: alert, return (258-265)
getUserMediaReject(i) ==
  /\ i \in DOMAIN rec
  /\ rec[i].pc = "getUserMedia"
  /\ rec' = [rec EXCEPT ![i].pc = "denied", ![i].alerted = TRUE]
  /\ UNCHANGED <<cardVars, contextVars, wakeVars, lockVars, mimeSupported, notes, folders, createdFolders, activeView, searchQuery, status, stream,
                 mediaRecorderRef, startsLeft, idCounter, blobStore, deletes>>
  /\ UNCHANGED storeVars

\* getUserMedia resolves with a live stream; the rest of startRecording runs to its end
\* (267-337). outcome: "noMime"  getSupportedMimeType() returned ''
\*                     "ctor"    new MediaRecorder threw
\*                     "start"   recorder.start(1000) threw
\*                     "ok"
getUserMediaResolve(i, outcome) ==
  /\ i \in DOMAIN rec
  /\ rec[i].pc = "getUserMedia"
  /\ (outcome = "noMime") = ~mimeSupported
  /\ CASE outcome = "noMime" ->
            /\ rec' = [rec EXCEPT ![i].pc = "formatError", ![i].track = "stopped",
                                  ![i].alerted = TRUE]
            /\ UNCHANGED <<mediaRecorderRef, stream, status>>
       [] outcome = "ctor" ->
            /\ rec' = [rec EXCEPT ![i].pc = "initError", ![i].track = "stopped",
                                  ![i].alerted = TRUE]
            /\ status' = "IDLE"
            /\ UNCHANGED <<mediaRecorderRef, stream>>
       [] outcome = "start" ->
            /\ mediaRecorderRef' = i
            /\ stream' = i
            /\ rec' = [rec EXCEPT ![i].pc = "initError", ![i].track = "stopped",
                                  ![i].alerted = TRUE]
            /\ status' = "IDLE"
       [] outcome = "ok" ->
            /\ mediaRecorderRef' = i
            /\ stream' = i
            /\ rec' = [rec EXCEPT ![i].pc = "recording", ![i].track = "live",
                                  ![i].lock = "pending"]
            /\ status' = "RECORDING"
  /\ UNCHANGED <<cardVars, contextVars, wakeVars, lockVars, mimeSupported, notes, folders, createdFolders, activeView, searchQuery, startsLeft,
                 idCounter, blobStore, deletes>>
  /\ UNCHANGED storeVars

\* seeded fault: stopRecording without the status half of its guard
stopRecording_NoStatusGuard ==
  /\ IF mediaRecorderRef # NoRec
       THEN /\ rec' = [i \in DOMAIN rec |->
                         [rec[i] EXCEPT
                            !.pc = IF i = mediaRecorderRef /\ @ = "recording"
                                     THEN "stopping" ELSE @,
                            !.track = IF i = stream THEN "stopped" ELSE @,
                            !.lock = IF i = wakeLockRef THEN "releasing" ELSE @,
                            !.stopDuring = IF rec[i].pc = "getUserMedia" THEN TRUE ELSE @]]
            /\ stream' = NoRec
            /\ UNCHANGED <<stopIgnored>>
       ELSE /\ stopIgnored' = TRUE
            /\ rec' = [i \in DOMAIN rec |->
                         [rec[i] EXCEPT
                            !.stopDuring = IF rec[i].pc = "getUserMedia" THEN TRUE ELSE @]]
            /\ UNCHANGED <<stream>>
  /\ UNCHANGED <<cardVars, contextVars, lockVars, mimeSupported, notes, folders, createdFolders, activeView, searchQuery,
                 status, mediaRecorderRef, startsLeft, idCounter, blobStore, deletes, wakeLockRef>>
  /\ UNCHANGED storeVars

\* stopRecording (340-347), called in any state. Under its guard: recorder.stop()
\* queues the stop event if the recorder is recording and does nothing to one that
\* was already stopped; the tracks of the `stream` state are stopped;
\* releaseWakeLock() (249-256) calls release() on the sentinel the ref holds, if
\* any, and suspends. Otherwise nothing is done.
stopRecording ==
  /\ IF mediaRecorderRef # NoRec /\ status = "RECORDING"
       THEN /\ rec' = [i \in DOMAIN rec |->
                         [rec[i] EXCEPT
                            !.pc = IF i = mediaRecorderRef /\ @ = "recording"
                                     THEN "stopping" ELSE @,
                            !.track = IF i = stream THEN "stopped" ELSE @,
                            !.lock = IF i = wakeLockRef THEN "releasing" ELSE @,
                            !.stopDuring = IF rec[i].pc = "getUserMedia" THEN TRUE ELSE @]]
            /\ stream' = NoRec
            /\ UNCHANGED <<stopIgnored>>
       ELSE /\ stopIgnored' = TRUE
            /\ rec' = [i \in DOMAIN rec |->
                         [rec[i] EXCEPT
                            !.stopDuring = IF rec[i].pc = "getUserMedia" THEN TRUE ELSE @]]
            /\ UNCHANGED <<stream>>
  /\ UNCHANGED <<cardVars, contextVars, lockVars, mimeSupported, notes, folders, createdFolders, activeView, searchQuery,
                 status, mediaRecorderRef, startsLeft, idCounter, blobStore, deletes, wakeLockRef>>
  /\ UNCHANGED storeVars

\* The stop button is rendered only while status is RECORDING (Snowfall.tsx 619-628)
stopButton ==
  /\ status = "RECORDING"
  /\ stopRecording

\* navigator.wakeLock.request('screen') resolves: requestWakeLock (239-247) resumes
\* and stores the sentinel
wakeLockResolve(i) ==
  /\ i \in DOMAIN rec
  /\ rec[i].lock = "pending"
  /\ rec' = [rec EXCEPT ![i].lock = "held"]
  /\ wakeLockRef' = i
  /\ UNCHANGED <<cardVars, contextVars, lockVars, mimeSupported, notes, folders, createdFolders, activeView, searchQuery,
                 status, stream, mediaRecorderRef, startsLeft, idCounter, blobStore, deletes, stopIgnored>>
  /\ UNCHANGED storeVars

\* the request rejects (or the browser has no navigator.wakeLock and none is made):
\* nothing is stored
wakeLockReject(i) ==
  /\ i \in DOMAIN rec
  /\ rec[i].lock = "pending"
  /\ rec' = [rec EXCEPT ![i].lock = "failed"]
  /\ UNCHANGED <<cardVars, contextVars, lockVars, mimeSupported, notes, folders, createdFolders, activeView, searchQuery,
                 status, stream, mediaRecorderRef, startsLeft, idCounter, blobStore, deletes, wakeVars>>
  /\ UNCHANGED storeVars

\* sentinel.release() resolves: releaseWakeLock resumes and clears the ref (252-253)
releaseWakeLockResume(i) ==
  /\ i \in DOMAIN rec
  /\ rec[i].lock = "releasing"
  /\ rec' = [rec EXCEPT ![i].lock = "released"]
  /\ wakeLockRef' = NoRec
  /\ UNCHANGED <<cardVars, contextVars, lockVars, mimeSupported, notes, folders, createdFolders, activeView, searchQuery,
                 status, stream, mediaRecorderRef, startsLeft, idCounter, blobStore, deletes, stopIgnored>>
  /\ UNCHANGED storeVars

\* ---------------------------------------------------------------- pipeline
\* recorder.onstop up to its first suspension point, await saveAudioBlob (282-290)
onstop(i) ==
  /\ i \in DOMAIN rec
  /\ rec[i].pc = "stopping"
  /\ idCounter' = idCounter + 1
  /\ rec' = [rec EXCEPT ![i].pc = "saving", ![i].noteId = idCounter + 1]
  /\ status' = "TRANSCRIBING"
  /\ UNCHANGED <<cardVars, contextVars, wakeVars, lockVars, mimeSupported, notes, folders, createdFolders, activeView, searchQuery, stream,
                 mediaRecorderRef, startsLeft, blobStore, deletes>>
  /\ UNCHANGED storeVars

\* AudioBlobStore.put(id, bytes, mimeType) -> ok
saveAudioBlob(store, id) == store \cup {id}

\* saveAudioBlob resolved: reader.readAsDataURL(audioBlob) is started (290-293)
saveAudioBlobResolve(i) ==
  /\ i \in DOMAIN rec
  /\ rec[i].pc = "saving"
  /\ blobStore' = saveAudioBlob(blobStore, rec[i].noteId)
  /\ rec' = [rec EXCEPT ![i].pc = "encoding", ![i].saved = "ok"]
  /\ UNCHANGED <<cardVars, contextVars, wakeVars, lockVars, mimeSupported, notes, folders, createdFolders, activeView, searchQuery, status, stream,
                 mediaRecorderRef, startsLeft, idCounter, deletes>>
  /\ UNCHANGED storeVars

\* seeded fault: the rejection is swallowed and the run goes on to encode and
\* transcribe a blob that was never stored
saveAudioBlobReject_GoesOn(i) ==
  /\ i \in DOMAIN rec
  /\ rec[i].pc = "saving"
  /\ rec' = [rec EXCEPT ![i].pc = "encoding", ![i].saved = "failed", ![i].alerted = TRUE]
  /\ UNCHANGED <<cardVars, contextVars, wakeVars, lockVars, mimeSupported, notes, folders, createdFolders, activeView, searchQuery, status,
                 stream, mediaRecorderRef, startsLeft, idCounter, blobStore, deletes>>
  /\ UNCHANGED storeVars

\* saveAudioBlob rejected: the outer catch (317-321)
saveAudioBlobReject(i) ==
  /\ i \in DOMAIN rec
  /\ rec[i].pc = "saving"
  /\ rec' = [rec EXCEPT ![i].pc = "storageError", ![i].saved = "failed",
                        ![i].alerted = TRUE]
  /\ status' = "IDLE"
  /\ UNCHANGED <<cardVars, contextVars, wakeVars, lockVars, mimeSupported, notes, folders, createdFolders, activeView, searchQuery, stream,
                 mediaRecorderRef, startsLeft, idCounter, blobStore, deletes>>
  /\ UNCHANGED storeVars

\* reader.onloadend with a result: transcribeAudio is called (293-296)
onloadendResult(i) ==
  /\ i \in DOMAIN rec
  /\ rec[i].pc = "encoding"
  /\ rec' = [rec EXCEPT ![i].pc = "transcribing", ![i].transcribeCalled = TRUE]
  /\ UNCHANGED <<cardVars, contextVars, wakeVars, lockVars, mimeSupported, notes, folders, createdFolders, activeView, searchQuery, status, stream,
                 mediaRecorderRef, startsLeft, idCounter, blobStore, deletes>>
  /\ UNCHANGED storeVars

\* reader.onloadend after a read error: reader.result is null, so line 294
\* (reader.result as string).split(',') throws outside the inner try; the handler
\* ends there and lines 314-315 never run
onloadendError(i) ==
  /\ i \in DOMAIN rec
  /\ rec[i].pc = "encoding"
  /\ rec' = [rec EXCEPT ![i].pc = "crashed"]
  /\ UNCHANGED <<cardVars, contextVars, wakeVars, lockVars, mimeSupported, notes, folders, createdFolders, activeView, searchQuery, status, stream,
                 mediaRecorderRef, startsLeft, idCounter, blobStore, deletes>>
  /\ UNCHANGED storeVars

\* transcribeAudio resolved: setNotes(prev => [note, ...prev]); setStatus(IDLE) (296-315)
transcribeResolve(i) ==
  /\ i \in DOMAIN rec
  /\ rec[i].pc = "transcribing"
  /\ notes' = <<NewNote(rec[i].noteId, targetFolder(rec[i].view), DateNow)>> \o notes
  /\ rec' = [rec EXCEPT ![i].pc = "created"]
  /\ status' = "IDLE"
  /\ UNCHANGED <<cardVars, contextVars, wakeVars, lockVars, mimeSupported, folders, createdFolders, activeView, searchQuery, stream,
                 mediaRecorderRef, startsLeft, idCounter, blobStore, deletes>>
  /\ persistNotes
  /\ UNCHANGED cardCalls

\* seeded fault: the failure handler cleans up the stored blob
transcribeReject_DeletesBlob(i) ==
  /\ i \in DOMAIN rec
  /\ rec[i].pc = "transcribing"
  /\ rec' = [rec EXCEPT ![i].pc = "transcribeError", ![i].alerted = TRUE]
  /\ status' = "IDLE"
  /\ blobStore' = blobStore \ {rec[i].noteId}
  /\ UNCHANGED <<cardVars, contextVars, wakeVars, lockVars, mimeSupported, notes, folders, createdFolders, activeView, searchQuery, stream,
                 mediaRecorderRef, startsLeft, idCounter, deletes>>
  /\ UNCHANGED storeVars

\* transcribeAudio rejected: alert; setStatus(IDLE) (311-315)
transcribeReject(i) ==
  /\ i \in DOMAIN rec
  /\ rec[i].pc = "transcribing"
  /\ rec' = [rec EXCEPT ![i].pc = "transcribeError", ![i].alerted = TRUE]
  /\ status' = "IDLE"
  /\ UNCHANGED <<cardVars, contextVars, wakeVars, lockVars, mimeSupported, notes, folders, createdFolders, activeView, searchQuery, stream,
                 mediaRecorderRef, startsLeft, idCounter, blobStore, deletes>>
  /\ UNCHANGED storeVars

\* AudioBlobStore.delete(id) -> ok (idempotent)
deleteAudioBlob(store, id) == store \ {id}

\* deleteNote of a note in the list, confirmed: deleteAudioBlob(id) is called and the
\* handler suspends on it (349-351)
deleteNote(k) ==
  /\ k \in 1..Len(notes)
  /\ [id |-> notes[k].id, blobGone |-> FALSE] \notin deletes
  /\ deletes' = deletes \cup {[id |-> notes[k].id, blobGone |-> FALSE]}
  /\ UNCHANGED <<cardVars, contextVars, wakeVars, lockVars, mimeSupported, notes, folders, createdFolders, activeView, searchQuery, status, stream,
                 mediaRecorderRef, rec, startsLeft, idCounter, blobStore>>
  /\ UNCHANGED storeVars

\* the store carries out the delete; the promise is not yet resolved
deleteAudioBlobCommit(id) ==
  /\ [id |-> id, blobGone |-> FALSE] \in deletes
  /\ blobStore' = deleteAudioBlob(blobStore, id)
  /\ deletes' = (deletes \ {[id |-> id, blobGone |-> FALSE]})
                  \cup {[id |-> id, blobGone |-> TRUE]}
  /\ UNCHANGED <<cardVars, contextVars, wakeVars, lockVars, mimeSupported, notes, folders, createdFolders, activeView, searchQuery, status,
                 stream, mediaRecorderRef, rec, startsLeft, idCounter>>
  /\ UNCHANGED storeVars

\* deleteAudioBlob resolved: setNotes(prev => prev.filter(n => n.id !== id)) (352)
deleteAudioBlobResolve(id) ==
  /\ [id |-> id, blobGone |-> TRUE] \in deletes
  /\ notes' = SeqFilterNotes(notes, id)
  /\ deletes' = deletes \ {[id |-> id, blobGone |-> TRUE]}
  /\ UNCHANGED <<cardVars, contextVars, wakeVars, lockVars, mimeSupported, folders, createdFolders, activeView, searchQuery, status, stream,
                 mediaRecorderRef, rec, startsLeft, idCounter, blobStore>>
  /\ persistNotes
  /\ UNCHANGED cardCalls

\* deleteAudioBlob rejected: deleteNote has no catch, line 352 never runs
deleteAudioBlobReject(id) ==
  /\ [id |-> id, blobGone |-> FALSE] \in deletes
  /\ deletes' = deletes \ {[id |-> id, blobGone |-> FALSE]}
  /\ UNCHANGED <<cardVars, contextVars, wakeVars, lockVars, mimeSupported, notes, folders, createdFolders, activeView, searchQuery, status,
                 stream, mediaRecorderRef, rec, startsLeft, idCounter, blobStore>>
  /\ UNCHANGED storeVars

Next ==
  \/ \E v \in BuiltinViews : setActiveView(v)
  \/ \E k \in 1..MaxFolders : handleFolderClick(k)
  \/ \E q \in Queries : setSearchQuery(q)
  \/ createFolder
  \/ \E k \in 1..MaxFolders : deleteFolder(k)
  \/ startRecording
  \/ \E i \in StartIds : getUserMediaReject(i)
  \/ \E i \in StartIds, o \in {"noMime", "ctor", "start", "ok"} : getUserMediaResolve(i, o)
  \/ stopButton
  \/ \E i \in StartIds : onstop(i)
  \/ \E i \in StartIds : saveAudioBlobResolve(i)
  \/ \E i \in StartIds : saveAudioBlobReject(i)
  \/ \E i \in StartIds : onloadendResult(i)
  \/ \E i \in StartIds : onloadendError(i)
  \/ \E i \in StartIds : transcribeResolve(i)
  \/ \E i \in StartIds : transcribeReject(i)
  \/ \E k \in NoteIndexes : deleteNote(k)
  \/ \E id \in NoteIdRange : deleteAudioBlobCommit(id)
  \/ \E id \in NoteIdRange : deleteAudioBlobResolve(id)
  \/ \E id \in NoteIdRange : deleteAudioBlobReject(id)

Spec == Init /\ [][Next]_vars

\* the same program in a behaviour that holds one more startRecording invocation
InitRace == InitAppWith(MaxStarts + 1) /\ InitCardsEmpty

SpecRace == InitRace /\ [][Next]_vars

\* The recording controller by itself: startRecording and stopRecording called in
\* any state, the wake-lock requests settling, and the pipeline run of each recorder.
NextRec ==
  \/ startRecording
  \/ \E i \in StartIds : getUserMediaReject(i)
  \/ \E i \in StartIds, o \in {"noMime", "ctor", "start", "ok"} : getUserMediaResolve(i, o)
  \/ stopRecording
  \/ \E i \in StartIds : wakeLockResolve(i)
  \/ \E i \in StartIds : wakeLockReject(i)
  \/ \E i \in StartIds : releaseWakeLockResume(i)
  \/ \E i \in StartIds : onstop(i)
  \/ \E i \in StartIds : saveAudioBlobResolve(i)
  \/ \E i \in StartIds : saveAudioBlobReject(i)
  \/ \E i \in StartIds : onloadendResult(i)
  \/ \E i \in StartIds : onloadendError(i)
  \/ \E i \in StartIds : transcribeResolve(i)
  \/ \E i \in StartIds : transcribeReject(i)

SpecRec == Init /\ [][NextRec]_vars

\* The note and folder store with its access control: a page that starts with two
\* notes persisted earlier (the second one a favorite), no folder and no recording.
InitFolders ==
  /\ notes = <<[NewNote(2, Undefined, 2) EXCEPT !.isFavorite = TRUE], NewNote(1, Undefined, 1)>>
  /\ folders = <<>>
  /\ createdFolders = 0
  /\ activeView = "all"
  /\ searchQuery = ""
  /\ status = "IDLE"
  /\ stream = NoRec
  /\ mediaRecorderRef = NoRec
  /\ rec = <<>>
  /\ startsLeft = 0
  /\ idCounter = 2
  /\ blobStore = {1, 2}
  /\ deletes = {}
  /\ mimeSupported = TRUE
  /\ wakeLockRef = NoRec
  /\ stopIgnored = FALSE
  /\ unlockedFolderIds = <<>>
  /\ pinModal = NoModal
  /\ sortBy = "newest"
  /\ lastPinResult = "none"
  /\ InitStore
  /\ InitContexts
  /\ InitCardsEmpty

NextFolders ==
  \/ \E v \in BuiltinViews : setActiveView(v)
  \/ \E k \in 1..MaxFolders : handleFolderClick(k)
  \/ createFolder
  \/ \E k \in 1..MaxFolders : deleteFolder(k)
  \/ \E k \in 1..MaxFolders : toggleFolderLock(k)
  \/ \E pin \in Pins : handlePinConfirm(pin)
  \/ pinModalCancel
  \/ \E id \in NoteIdRange, f \in FolderIds \cup {Undefined} : onMoveToFolder(id, f)
  \/ \E id \in NoteIdRange : toggleFavorite(id)
  \/ reload

SpecFolders == InitFolders /\ [][NextFolders]_vars

\* The note list as the main view sorts it: a page that starts with MaxSortNotes
\* notes persisted earlier, in any order of their ids (the ids are random strings),
\* newest first or all built in the same millisecond, each pinned, not pinned or
\* stored without the isPinned flag.
SortIds == 1..(MaxSortNotes + 1)
PersistedNote(id, timestamp, pin) ==
  LET n == NewNote(id, Undefined, timestamp) IN
    IF pin = "absent" THEN [f \in DOMAIN n \ {"isPinned"} |-> n[f]]
    ELSE [n EXCEPT !.isPinned = (pin = "true")]

InitSort ==
  /\ \E ids \in [1..MaxSortNotes -> SortIds], tied \in BOOLEAN,
        pins \in [1..MaxSortNotes -> {"absent", "false", "true"}] :
       /\ \A i, j \in 1..MaxSortNotes : i # j => ids[i] # ids[j]
       /\ notes = [k \in 1..MaxSortNotes |->
                     PersistedNote(ids[k], IF tied THEN 1 ELSE MaxSortNotes - k + 1, pins[k])]
  /\ folders = <<>>
  /\ createdFolders = 0
  /\ activeView = "all"
  /\ searchQuery = ""
  /\ status = "IDLE"
  /\ stream = NoRec
  /\ mediaRecorderRef = NoRec
  /\ rec = <<>>
  /\ startsLeft = 0
  /\ idCounter = MaxSortNotes + 1
  /\ blobStore = NoteIdsOf(notes)
  /\ deletes = {}
  /\ mimeSupported = TRUE
  /\ wakeLockRef = NoRec
  /\ stopIgnored = FALSE
  /\ unlockedFolderIds = <<>>
  /\ pinModal = NoModal
  /\ sortBy = "newest"
  /\ lastPinResult = "none"
  /\ InitStore
  /\ InitContexts
  /\ InitCardsEmpty

NextSort ==
  \/ \E id \in SortIds : onTogglePin(id)
  \/ \E q \in Queries : setSearchQuery(q)
  \/ reload

SpecSort == InitSort /\ [][NextSort]_vars

\* The note list under the edits of its cards: a page that starts with the two notes
\* of InitFolders, whose cards pin, favorite, retitle and delete them.
NextEdit ==
  \/ \E id \in NoteIdRange : onTogglePin(id)
  \/ \E id \in NoteIdRange : toggleFavorite(id)
  \/ \E id \in NoteIdRange : handleReTitle(id)
  \/ \E id \in NoteIdRange, ok \in BOOLEAN : reTitleNoteReturn(id, ok)
  \/ \E k \in NoteIndexes : deleteNote(k)
  \/ \E id \in NoteIdRange : deleteAudioBlobCommit(id)
  \/ \E id \in NoteIdRange : deleteAudioBlobResolve(id)
  \/ \E id \in NoteIdRange : deleteAudioBlobReject(id)

SpecEdit == InitFolders /\ [][NextEdit]_vars

\* the translation of a note by its card
NextTranslate ==
  \/ \E id \in NoteIdRange, langName \in Languages : handleTranslate(id, langName)
  \/ \E id \in NoteIdRange, hasText \in BOOLEAN : translateTextResolve(id, hasText)
  \/ \E id \in NoteIdRange : translateTextReject(id)

\* The service calls of the cards against the deletion of their notes: a page that
\* starts with the two notes of InitFolders, whose cards retitle, translate (into
\* one language) and delete them.
NextCalls ==
  \/ \E id \in NoteIdRange : handleTranslate(id, "Spanish")
  \/ \E id \in NoteIdRange, hasText \in BOOLEAN : translateTextResolve(id, hasText)
  \/ \E id \in NoteIdRange : translateTextReject(id)
  \/ \E id \in NoteIdRange : handleReTitle(id)
  \/ \E id \in NoteIdRange, ok \in BOOLEAN : reTitleNoteReturn(id, ok)
  \/ \E k \in NoteIndexes : deleteNote(k)
  \/ \E id \in NoteIdRange : deleteAudioBlobCommit(id)
  \/ \E id \in NoteIdRange : deleteAudioBlobResolve(id)

SpecCalls == InitFolders /\ [][NextCalls]_vars

\* The note and folder store with its durable layer: a page that starts with the
\* two notes of InitFolders; folders are created, deleted and given a PIN, notes are
\* moved, pinned and deleted, the application is reset and the page reloaded.
NextStore ==
  \/ createFolder
  \/ \E k \in 1..MaxFolders : deleteFolder(k)
  \/ \E k \in 1..MaxFolders : toggleFolderLock(k)
  \/ \E pin \in Pins : handlePinConfirm(pin)
  \/ pinModalCancel
  \/ \E id \in NoteIdRange, f \in FolderIds \cup {Undefined} : onMoveToFolder(id, f)
  \/ \E id \in NoteIdRange : onTogglePin(id)
  \/ \E k \in NoteIndexes : deleteNote(k)
  \/ \E id \in NoteIdRange : deleteAudioBlobCommit(id)
  \/ \E id \in NoteIdRange : deleteAudioBlobResolve(id)
  \/ \E id \in NoteIdRange : deleteAudioBlobReject(id)
  \/ \E d \in BOOLEAN : handleReset(d)
  \/ reload

SpecStore == InitFolders /\ [][NextStore]_vars

\* The PIN dialog: a page that starts as in InitFolders; folders are created and
\* deleted, the dialog is opened on them, text is typed into it, submitted or
\* cancelled.
NextPin ==
  \/ \E v \in BuiltinViews : setActiveView(v)
  \/ createFolder
  \/ \E k \in 1..MaxFolders : deleteFolder(k)
  \/ \E k \in 1..MaxFolders : handleFolderClick(k)
  \/ \E k \in 1..MaxFolders : toggleFolderLock(k)
  \/ \E raw \in RawInputs : pinOnChange(raw)
  \/ handleSubmit
  \/ pinModalCancel
  \/ reload

SpecPin == InitFolders /\ [][NextPin]_vars

\* =============================================================== NoteCard
\* The cards of the notes of the list. Every card owns its <audio> element, its
\* isPlaying / ttsStatus / activeTtsSection state and its ttsAudioRef; App passes a
\* card nothing but the note, the folders and the update callbacks (Snowfall.tsx 596).
InitAudio ==
  /\ notes = [k \in CardIds |-> NewNote(k, Undefined, k)]
  /\ folders = <<>>
  /\ createdFolders = 0
  /\ activeView = "all"
  /\ searchQuery = ""
  /\ status = "IDLE"
  /\ stream = NoRec
  /\ mediaRecorderRef = NoRec
  /\ rec = <<>>
  /\ startsLeft = 0
  /\ idCounter = NumCards
  /\ blobStore = CardIds
  /\ deletes = {}
  /\ mimeSupported = TRUE
  /\ wakeLockRef = NoRec
  /\ stopIgnored = FALSE
  /\ unlockedFolderIds = <<>>
  /\ pinModal = NoModal
  /\ sortBy = "newest"
  /\ lastPinResult = "none"
  /\ InitStore
  /\ InitContexts
  /\ mounted = [n \in CardIds |-> TRUE]
  /\ localAudioUrl = [n \in CardIds |-> FALSE]
  /\ isPlaying = [n \in CardIds |-> FALSE]
  /\ audioEl = [n \in CardIds |-> "paused"]
  /\ ttsStatus = [n \in CardIds |-> "idle"]
  /\ activeTtsSection = [n \in CardIds |-> Undefined]
  /\ ttsAudioRef = [n \in CardIds |-> NoRec]
  /\ speech = <<>>
  /\ noteText = [n \in CardIds |->
                   IF n = 1 THEN {"summary", "transcription"} ELSE {"summary"}]

\* the instance of card n that is shown, named by the first request it issued (the
\* request about to be issued, if it has issued none): every request of card n that
\* is live was issued by it
instanceOf(n) ==
  IF \E q \in 1..Len(speech) : speech[q].card = n /\ speech[q].live
    THEN speech[CHOOSE q \in 1..Len(speech) : speech[q].card = n /\ speech[q].live].inst
    ELSE Len(speech) + 1

\* the text handleReadAloud reads for a section of note n (145-147)
textToRead(n, section) == section \in noteText[n]

\* the read-aloud state card n holds, with the speech sources it can act on
ttsOf(n) ==
  [speech |-> speech, ttsAudioRef |-> ttsAudioRef[n], ttsStatus |-> ttsStatus[n],
   activeTtsSection |-> activeTtsSection[n]]

\* seeded fault: stopTts leaves activeTtsSection as it is
stopTts_KeepsSection(n, st) ==
  [speech |-> [r \in 1..Len(st.speech) |->
                 IF r = st.ttsAudioRef /\ st.speech[r].state = "playing"
                   THEN [st.speech[r] EXCEPT !.state = "stopped"]
                 ELSE IF st.speech[r].card = n /\ st.speech[r].live
                           /\ st.speech[r].state = "pending"
                   THEN [st.speech[r] EXCEPT !.superseded = TRUE]
                 ELSE st.speech[r]],
   ttsAudioRef |-> NoRec,
   ttsStatus |-> "idle",
   activeTtsSection |-> st.activeTtsSection]

\* stopTts of card n (119-126) applied to the read-aloud state st.
\* ttsAudioRef.current.stop() (120-123): the source the ref refers to, if still
\* playing, falls silent and its ended event is queued; stop() on a source that has
\* ended does nothing, and what it throws is caught. A request of the card that is
\* still waiting for its speech is not touched; it is marked as superseded (history
\* only). Then the ref is cleared, ttsStatus is idle and activeTtsSection is null.
stopTts(n, st) ==
  [speech |-> [r \in 1..Len(st.speech) |->
                 IF r = st.ttsAudioRef /\ st.speech[r].state = "playing"
                   THEN [st.speech[r] EXCEPT !.state = "stopped"]
                 ELSE IF st.speech[r].card = n /\ st.speech[r].live
                           /\ st.speech[r].state = "pending"
                   THEN [st.speech[r] EXCEPT !.superseded = TRUE]
                 ELSE st.speech[r]],
   ttsAudioRef |-> NoRec,
   ttsStatus |-> "idle",
   activeTtsSection |-> Undefined]

\* the speech sources after stopTts of card n in the current state
stopTtsSpeech(n) == stopTts(n, ttsOf(n)).speech

\* loadAudio of the mount effect resolved with a blob (85-90)
loadAudio(n) ==
  /\ mounted[n]
  /\ ~localAudioUrl[n]
  /\ n \in blobStore
  /\ localAudioUrl' = [localAudioUrl EXCEPT ![n] = TRUE]
  /\ UNCHANGED <<appVars, mounted, isPlaying, audioEl, ttsStatus, activeTtsSection,
                 ttsAudioRef, speech, noteText>>
  /\ UNCHANGED contextVars
  /\ UNCHANGED storeVars

\* togglePlay (106-117); the play button is disabled until localAudioUrl is set.
\* playOk: whether audioRef.current.play() starts playback or rejects.
togglePlay(n, playOk) ==
  /\ mounted[n]
  /\ localAudioUrl[n]
  /\ IF isPlaying[n]
       THEN /\ audioEl' = [audioEl EXCEPT ![n] = "paused"]
            /\ UNCHANGED <<ttsStatus, activeTtsSection, ttsAudioRef, speech, noteText>>
       ELSE /\ speech' = stopTtsSpeech(n)
            /\ ttsAudioRef' = [ttsAudioRef EXCEPT ![n] = NoRec]
            /\ ttsStatus' = [ttsStatus EXCEPT ![n] = "idle"]
            /\ activeTtsSection' = [activeTtsSection EXCEPT ![n] = Undefined]
            /\ audioEl' = [audioEl EXCEPT ![n] = IF playOk THEN "playing" ELSE @]
  /\ isPlaying' = [isPlaying EXCEPT ![n] = ~@]
  /\ UNCHANGED <<appVars, mounted, localAudioUrl, noteText>>
  /\ UNCHANGED contextVars
  /\ UNCHANGED storeVars

\* the <audio> element played to its end: onEnded={() => setIsPlaying(false)}
audioEnded(n) ==
  /\ audioEl[n] = "playing"
  /\ audioEl' = [audioEl EXCEPT ![n] = "paused"]
  /\ isPlaying' = [isPlaying EXCEPT ![n] = FALSE]
  /\ UNCHANGED <<appVars, mounted, localAudioUrl, ttsStatus, activeTtsSection,
                 ttsAudioRef, speech, noteText>>
  /\ UNCHANGED contextVars
  /\ UNCHANGED storeVars

\* handleReadAloud up to its suspension point, await generateSpeech (128-155). The
\* button of the summary is rendered only for a note that has a summary (391-396);
\* the button of the transcription is always rendered (410-411).
handleReadAloud(n, section) ==
  /\ mounted[n]
  /\ section = "summary" => textToRead(n, "summary")
  /\ IF ttsStatus[n] = "playing" /\ activeTtsSection[n] = section
       THEN \* the same section is playing: stop it and return
            /\ speech' = stopTtsSpeech(n)
            /\ ttsAudioRef' = [ttsAudioRef EXCEPT ![n] = NoRec]
            /\ ttsStatus' = [ttsStatus EXCEPT ![n] = "idle"]
            /\ activeTtsSection' = [activeTtsSection EXCEPT ![n] = Undefined]
            /\ UNCHANGED <<isPlaying, audioEl>>
       ELSE /\ ttsAudioRef' = [ttsAudioRef EXCEPT ![n] = NoRec]
            /\ audioEl' = [audioEl EXCEPT ![n] = IF isPlaying[n] THEN "paused" ELSE @]
            /\ isPlaying' = [isPlaying EXCEPT ![n] = FALSE]
            /\ activeTtsSection' = [activeTtsSection EXCEPT ![n] = section]
            /\ IF textToRead(n, section)
                 THEN /\ Len(speech) < MaxRequests
                      /\ ttsStatus' = [ttsStatus EXCEPT ![n] = "loading"]
                      /\ speech' = Append(stopTtsSpeech(n),
                                          [card |-> n, section |-> section, live |-> TRUE,
                                           state |-> "pending", superseded |-> FALSE,
                                           inst |-> instanceOf(n)])
                 ELSE /\ ttsStatus' = [ttsStatus EXCEPT ![n] = "idle"]
                      /\ speech' = stopTtsSpeech(n)
  /\ UNCHANGED <<appVars, mounted, localAudioUrl, noteText>>
  /\ UNCHANGED contextVars
  /\ UNCHANGED storeVars

\* generateSpeech resolved and the PCM decoded: source.start(); ttsAudioRef.current =
\* source; setTtsStatus('playing') (155-174). Nothing is checked after the await. The
\* state of a card that was unmounted in between is gone; the source plays all the same.
\* The card instance creates its AudioContext unless its ttsContextRef holds one
\* (158-160); nothing ever closes it or clears the ref.
generateSpeechResolve(r) ==
  /\ r \in 1..Len(speech)
  /\ speech[r].state = "pending"
  /\ speech' = [speech EXCEPT ![r].state = "playing"]
  /\ IF speech[r].live
       THEN /\ ttsAudioRef' = [ttsAudioRef EXCEPT ![speech[r].card] = r]
            /\ ttsStatus' = [ttsStatus EXCEPT ![speech[r].card] = "playing"]
       ELSE UNCHANGED <<ttsAudioRef, ttsStatus>>
  /\ UNCHANGED <<appVars, mounted, localAudioUrl, isPlaying, audioEl, activeTtsSection,
                 noteText>>
  /\ ttsContexts' = ttsContexts \cup {speech[r].inst}
  /\ UNCHANGED visVars
  /\ UNCHANGED storeVars

\* generateSpeech rejected, or decoding threw: the catch (175-180)
generateSpeechReject(r) ==
  /\ r \in 1..Len(speech)
  /\ speech[r].state = "pending"
  /\ speech' = [speech EXCEPT ![r].state = "done"]
  /\ IF speech[r].live
       THEN /\ ttsStatus' = [ttsStatus EXCEPT ![speech[r].card] = "idle"]
            /\ activeTtsSection' = [activeTtsSection EXCEPT ![speech[r].card] = Undefined]
       ELSE UNCHANGED <<ttsStatus, activeTtsSection>>
  /\ UNCHANGED <<appVars, mounted, localAudioUrl, isPlaying, audioEl, ttsAudioRef,
                 noteText>>
  /\ UNCHANGED contextVars
  /\ UNCHANGED storeVars

\* source.onended (167-170): the source played to its end, or the ended event that
\* an earlier source.stop() queued is dispatched
sourceEnded(r) ==
  /\ r \in 1..Len(speech)
  /\ speech[r].state \in {"playing", "stopped"}
  /\ speech' = [speech EXCEPT ![r].state = "done"]
  /\ IF speech[r].live
       THEN /\ ttsStatus' = [ttsStatus EXCEPT ![speech[r].card] = "idle"]
            /\ activeTtsSection' = [activeTtsSection EXCEPT ![speech[r].card] = Undefined]
       ELSE UNCHANGED <<ttsStatus, activeTtsSection>>
  /\ UNCHANGED <<appVars, mounted, localAudioUrl, isPlaying, audioEl, ttsAudioRef,
                 noteText>>
  /\ UNCHANGED contextVars
  /\ UNCHANGED storeVars

\* the card leaves the list: the effect cleanup runs stopTts (93-96), the <audio>
\* element leaves the document and pauses, the component state is dropped
unmount(n) ==
  /\ mounted[n]
  /\ mounted' = [mounted EXCEPT ![n] = FALSE]
  /\ speech' = [r \in 1..Len(speech) |->
                  IF speech[r].card = n
                    THEN [stopTtsSpeech(n)[r] EXCEPT !.live = FALSE]
                    ELSE speech[r]]
  /\ ttsAudioRef' = [ttsAudioRef EXCEPT ![n] = NoRec]
  /\ ttsStatus' = [ttsStatus EXCEPT ![n] = "idle"]
  /\ activeTtsSection' = [activeTtsSection EXCEPT ![n] = Undefined]
  /\ audioEl' = [audioEl EXCEPT ![n] = "paused"]
  /\ isPlaying' = [isPlaying EXCEPT ![n] = FALSE]
  /\ localAudioUrl' = [localAudioUrl EXCEPT ![n] = FALSE]
  /\ UNCHANGED <<appVars, noteText>>
  /\ UNCHANGED contextVars
  /\ UNCHANGED storeVars

\* the card enters the list again: a fresh component instance
mount(n) ==
  /\ ~mounted[n]
  /\ n \in NoteIdsOf(notes)
  /\ mounted' = [mounted EXCEPT ![n] = TRUE]
  /\ UNCHANGED <<appVars, localAudioUrl, isPlaying, audioEl, ttsStatus, activeTtsSection,
                 ttsAudioRef, speech, noteText>>
  /\ UNCHANGED contextVars
  /\ UNCHANGED storeVars

\* The read-aloud of a single card: the list holds one note, with a summary and a
\* transcription, and its card is shown.
InitTts ==
  /\ notes = <<NewNote(1, Undefined, 1)>>
  /\ folders = <<>>
  /\ createdFolders = 0
  /\ activeView = "all"
  /\ searchQuery = ""
  /\ status = "IDLE"
  /\ stream = NoRec
  /\ mediaRecorderRef = NoRec
  /\ rec = <<>>
  /\ startsLeft = 0
  /\ idCounter = 1
  /\ blobStore = {1}
  /\ deletes = {}
  /\ mimeSupported = TRUE
  /\ wakeLockRef = NoRec
  /\ stopIgnored = FALSE
  /\ unlockedFolderIds = <<>>
  /\ pinModal = NoModal
  /\ sortBy = "newest"
  /\ lastPinResult = "none"
  /\ InitStore
  /\ InitContexts
  /\ mounted = [n \in CardIds |-> n = 1]
  /\ localAudioUrl = [n \in CardIds |-> FALSE]
  /\ isPlaying = [n \in CardIds |-> FALSE]
  /\ audioEl = [n \in CardIds |-> "paused"]
  /\ ttsStatus = [n \in CardIds |-> "idle"]
  /\ activeTtsSection = [n \in CardIds |-> Undefined]
  /\ ttsAudioRef = [n \in CardIds |-> NoRec]
  /\ speech = <<>>
  /\ noteText = [n \in CardIds |-> {"summary", "transcription"}]

NextAudio ==
  \/ \E n \in CardIds : loadAudio(n)
  \/ \E n \in CardIds, playOk \in BOOLEAN : togglePlay(n, playOk)
  \/ \E n \in CardIds : audioEnded(n)
  \/ \E n \in CardIds, section \in Sections : handleReadAloud(n, section)
  \/ \E r \in 1..MaxRequests : generateSpeechResolve(r)
  \/ \E r \in 1..MaxRequests : generateSpeechReject(r)
  \/ \E r \in 1..MaxRequests : sourceEnded(r)
  \/ \E n \in CardIds : unmount(n)
  \/ \E n \in CardIds : mount(n)

SpecAudio == InitAudio /\ [][NextAudio]_vars

SpecTts == InitTts /\ [][NextAudio]_vars

\* the single card of InitTts with its read-aloud and its translation
SpecCard == InitTts /\ [][NextAudio \/ NextTranslate]_vars

\* ======================================================== AudioVisualizer
\* App shows the component while status is RECORDING (Snowfall.tsx 619-627), with the
\* stream of its state: startRecording sets stream and status together (278, 321),
\* stopRecording sets stream to null (344) before recorder.onstop changes the status.
\* Here App is the environment of the component: it shows it, passes it another
\* stream or none, and removes it. Every initAudio call creates its own AudioContext.

\* safeCloseContext (15-37) on the calls rs with audioCtxRef.current = ref: the
\* context the ref holds is closed (a closed one is left alone, and what close()
\* throws is caught); the caller clears animationRef and audioCtxRef
safeCloseContext(rs, ref) ==
  [e \in 1..Len(rs) |-> IF e = ref THEN [rs[e] EXCEPT !.ctx = "closed"] ELSE rs[e]]

\* the cleanup of the effect that made the latest initAudio call (104-107):
\* isAborted = true; safeCloseContext(), which cancels the frame of its draw
effectCleanup ==
  [e \in 1..Len(visRuns) |->
     IF e = Len(visRuns)
       THEN [safeCloseContext(visRuns, audioCtxRef)[e] EXCEPT
               !.isAborted = TRUE,
               !.pc = IF @ = "drawing" THEN "cancelled" ELSE @]
       ELSE safeCloseContext(visRuns, audioCtxRef)[e]]

\* initAudio up to its suspension point or, if the context starts running, to the
\* first draw (46-96). suspended: audioContext.state === 'suspended' after the
\* constructor. isAborted is false at line 51: the call runs inside the effect.
initAudio(rs, ref, suspended) ==
  /\ visRuns' = Append(rs, [live |-> TRUE, isAborted |-> FALSE,
                            pc |-> IF suspended THEN "resume" ELSE "drawing",
                            ctx |-> IF suspended THEN "suspended" ELSE "running"])
  /\ audioCtxRef' = IF suspended THEN ref ELSE Len(rs) + 1
  /\ animationRef' = IF suspended THEN NoRec ELSE Len(rs) + 1

\* App shows the component with a stream: the effect runs initAudio (39-42, 102)
visMount(suspended) ==
  /\ visualizer = "absent"
  /\ Len(visRuns) < MaxEffects
  /\ visualizer' = "stream"
  /\ initAudio(visRuns, NoRec, suspended)
  /\ UNCHANGED <<appVars, cardVars, ttsContexts>>
  /\ UNCHANGED storeVars

\* App passes another stream while the component is shown: the cleanup of the
\* previous effect, if it had one, then initAudio (104-108)
visSetStream(suspended) ==
  /\ visualizer \in {"stream", "noStream"}
  /\ Len(visRuns) < MaxEffects
  /\ visualizer' = "stream"
  /\ IF visualizer = "stream"
       THEN initAudio(effectCleanup, NoRec, suspended)
       ELSE initAudio(visRuns, audioCtxRef, suspended)
  /\ UNCHANGED <<appVars, cardVars, ttsContexts>>
  /\ UNCHANGED storeVars

\* App passes stream = null (stopRecording, Snowfall.tsx 344): the cleanup of the
\* previous effect, then the effect closes what the ref holds and returns (39-42)
visStreamNull ==
  /\ visualizer = "stream"
  /\ visualizer' = "noStream"
  /\ visRuns' = effectCleanup
  /\ audioCtxRef' = NoRec
  /\ animationRef' = NoRec
  /\ UNCHANGED <<appVars, cardVars, ttsContexts>>
  /\ UNCHANGED storeVars

\* App removes the component: the cleanup of the latest effect, if it had one; the
\* refs go with the instance
visUnmount ==
  /\ visualizer # "absent"
  /\ visualizer' = "absent"
  /\ visRuns' = [e \in 1..Len(visRuns) |->
                   [(IF visualizer = "stream" THEN effectCleanup ELSE visRuns)[e]
                      EXCEPT !.live = FALSE]]
  /\ audioCtxRef' = NoRec
  /\ animationRef' = NoRec
  /\ UNCHANGED <<appVars, cardVars, ttsContexts>>
  /\ UNCHANGED storeVars

\* audioContext.resume() of call e resolved (59-96): the ref takes the context
\* whatever isAborted says (62); the canvas of a removed instance is null and the
\* call returns (71-72); draw returns at once when the call was aborted (79), else
\* it schedules its frame (81)
resumeResolve(e) ==
  /\ e \in 1..Len(visRuns)
  /\ visRuns[e].pc = "resume"
  /\ visRuns' = [visRuns EXCEPT ![e].ctx = "running",
                                ![e].pc = IF visRuns[e].live /\ ~visRuns[e].isAborted
                                            THEN "drawing" ELSE "returned"]
  /\ audioCtxRef' = IF visRuns[e].live THEN e ELSE audioCtxRef
  /\ animationRef' = IF visRuns[e].live /\ ~visRuns[e].isAborted THEN e ELSE animationRef
  /\ UNCHANGED <<visualizer, appVars, cardVars, ttsContexts>>
  /\ UNCHANGED storeVars

NextVis ==
  \/ \E suspended \in BOOLEAN : visMount(suspended)
  \/ \E suspended \in BOOLEAN : visSetStream(suspended)
  \/ visStreamNull
  \/ visUnmount
  \/ \E e \in 1..MaxEffects : resumeResolve(e)

SpecVis == InitFolders /\ [][NextVis]_vars

\* what can be heard: the <audio> elements that play and the speech sources that play
Audible ==
  {<<"recorded", n>> : n \in {m \in CardIds : audioEl[m] = "playing"}}
    \cup {<<"readAloud", r>> : r \in {q \in 1..Len(speech) : speech[q].state = "playing"}}

\* ============================================================== claims
\* C1: at most one audio source is audible at any time, across all notes: the
\* recorded playback of one note or one read-aloud source, never two.
C1_AtMostOneAudible == Cardinality(Audible) <= 1

\* a read-aloud request is issued in this transition
ReadAloudStarts == Len(speech') = Len(speech) + 1

\* C2: when a read-aloud is started, every other read-aloud source is stopped and
\* every recorded playback is paused: right after the start nothing but the new
\* request's own source can be audible.
C2_ReadAloudSilencesOthers ==
  [][ReadAloudStarts =>
       \A n \in CardIds :
         /\ audioEl'[n] = "paused"
         /\ \A r \in 1..Len(speech) : speech'[r].state # "playing"]_vars

\* C3: when the recorded playback of a note starts, every read-aloud source that
\* was playing, of any note and section, is stopped.
C3_PlaybackStopsReadAloud ==
  [][\A n \in CardIds :
       (audioEl[n] = "paused" /\ audioEl'[n] = "playing") =>
         \A r \in 1..Len(speech) : speech'[r].state # "playing"]_vars

\* C4: a read-aloud request that was superseded while its speech synthesis was
\* pending (by stop, by the start of recorded playback, by a newer request or by the
\* teardown of its card) does not start playing when the synthesis returns.
C4_SupersededNeverPlays ==
  [][\A r \in 1..Len(speech) :
       (speech[r].state = "pending" /\ speech[r].superseded) =>
         speech'[r].state # "playing"]_vars

\* the number of notes in ns that carry id
CountId(ns, id) == Cardinality({k \in 1..Len(ns) : ns[k].id = id})

\* invocation i's pipeline run takes its last step in this transition
Terminates(i) == rec[i].pc \notin TerminalPcs /\ rec'[i].pc \in TerminalPcs

\* stopRecording on a recorder that is no longer recording: `stream` is null by then,
\* so neither the recorder nor a track is touched; only releaseWakeLock still acts
StopOnInactiveRecorderIsNoOp ==
  (status = "RECORDING" /\ mediaRecorderRef # NoRec /\ rec[mediaRecorderRef].pc # "recording")
    => stream = NoRec

\* C5: when transcription fails after the blob was persisted, the step that handles
\* the failure leaves the NoteStore as it was and sets the status to IDLE, and from
\* then on no Note carries the run's id while the AudioBlobStore keeps the blob.
C5_TranscribeFailureKeepsBlob ==
  /\ [](\A i \in DOMAIN rec :
          rec[i].pc = "transcribeError" =>
            /\ rec[i].saved = "ok"
            /\ rec[i].noteId \notin NoteIdsOf(notes)
            /\ rec[i].noteId \in blobStore)
  /\ [][\A i \in DOMAIN rec :
          (rec[i].pc = "transcribing" /\ rec'[i].pc = "transcribeError") =>
            /\ notes' = notes
            /\ rec[i].noteId \in blobStore'
            /\ status' = "IDLE"]_vars

C5_Witness ==
  \E i \in DOMAIN rec :
    /\ rec[i].pc = "transcribeError"
    /\ rec[i].noteId \in blobStore
    /\ status = "IDLE"

\* C6: when persisting the blob fails the run ends there: the NoteStore is unchanged
\* by that step, the status becomes IDLE, and in every later state the transcription
\* service has not been called for the run and no Note carries the run's id.
C6_StorageFailureAborts ==
  /\ [](\A i \in DOMAIN rec :
          rec[i].saved = "failed" =>
            /\ rec[i].pc = "storageError"
            /\ ~rec[i].transcribeCalled
            /\ rec[i].noteId \notin NoteIdsOf(notes))
  /\ [][\A i \in DOMAIN rec :
          (rec[i].saved = "none" /\ rec'[i].saved = "failed") =>
            /\ notes' = notes
            /\ status' = "IDLE"]_vars

C6_Witness ==
  \E i \in DOMAIN rec :
    /\ rec[i].saved = "failed"
    /\ rec[i].pc = "storageError"
    /\ status = "IDLE"
    /\ rec[i].noteId \notin blobStore

\* C7: a pipeline run that ends has either added exactly one Note with the run's id,
\* or surfaced an error and added no Note; and the NoteStore gains a Note only in
\* the step in which a run ends with "created".
C7_TwoOutcomes ==
  [][/\ \A i \in DOMAIN rec :
          Terminates(i) =>
            \/ /\ rec'[i].pc = "created"
               /\ CountId(notes', rec[i].noteId) = 1
               /\ CountId(notes, rec[i].noteId) = 0
            \/ /\ rec'[i].alerted
               /\ CountId(notes', rec[i].noteId) = 0
     /\ (NoteIdsOf(notes') \ NoteIdsOf(notes) # {} \/ Len(notes') > Len(notes)) =>
          \E i \in DOMAIN rec : Terminates(i) /\ rec'[i].pc = "created"]_vars

\* C8: the step in which the last external call of a pipeline run returns (blob
\* persist, encoding, transcription; success or failure) sets the status to IDLE.
C8_ReturnsToIdle ==
  [][\A i \in DOMAIN rec : Terminates(i) => status' = "IDLE"]_vars

\* C9: the Note a pipeline run creates is put first and its folder reference is the
\* view that was active when startRecording was invoked if that view is a folder,
\* and unset if that view is "all", "uncategorized" or "favorites", whatever the
\* search query and the active view are when the run completes.
C9_TargetFolderFromStartView ==
  [][\A i \in DOMAIN rec :
       (Terminates(i) /\ rec'[i].pc = "created") =>
         /\ Len(notes') = Len(notes) + 1
         /\ notes'[1].id = rec[i].noteId
         /\ notes'[1].folderId =
              IF rec[i].view \in {"all", "uncategorized", "favorites"}
                THEN Undefined ELSE rec[i].view]_vars

C9_Witness ==
  \E i \in DOMAIN rec :
    /\ rec[i].pc = "created"
    /\ rec[i].view \in FolderIds
    /\ activeView # rec[i].view
    /\ searchQuery = "meeting"
    /\ Len(notes) > 0
    /\ notes[1].id = rec[i].noteId
    /\ notes[1].folderId = rec[i].view

\* C10: at most one input device is held (one RecordingSession is active) at a time.
C10_AtMostOneSession ==
  Cardinality({i \in DOMAIN rec : rec[i].track = "live"}) <= 1

\* ------------------------------------------------- recording controller claims
FailedStartPcs == {"denied", "formatError", "initError"}

\* invocation i leaves its suspension on getUserMedia in this transition
Resumes(i) == rec[i].pc = "getUserMedia" /\ rec'[i].pc # "getUserMedia"

\* C11: when stopRecording was called while a startRecording invocation was suspended
\* on getUserMedia, the step in which the invocation resumes leaves it without a
\* live device and without a recording, and leaves an IDLE status IDLE.
C11_StopDuringStartAborts ==
  [][\A i \in DOMAIN rec :
       (rec[i].stopDuring /\ Resumes(i)) =>
          /\ rec'[i].track # "live"
          /\ rec'[i].pc # "recording"
          /\ (status = "IDLE" => status' = "IDLE")]_vars

\* rec with the history field stopDuring masked
Positions(r) == [i \in DOMAIN r |-> [r[i] EXCEPT !.stopDuring = FALSE]]

\* C12: a stopRecording call made while the status is not RECORDING changes nothing:
\* not the status, not the notes, not the blobs, and no recorder, device, wake lock
\* or pipeline run.
C12_StopWhenNotRecordingIsNoOp ==
  [][(status # "RECORDING" /\ stopRecording) =>
        /\ UNCHANGED <<status, notes, blobStore, stream, mediaRecorderRef, wakeLockRef>>
        /\ Positions(rec') = Positions(rec)]_vars

\* a stopRecording call was ignored while a startRecording invocation was suspended,
\* and the invocation went on to record
C12_Witness ==
  /\ stopIgnored
  /\ \E i \in DOMAIN rec : rec[i].stopDuring /\ rec[i].pc = "recording"

\* every request of every invocation has settled
AllSettled ==
  \A j \in DOMAIN rec :
     /\ rec[j].pc \in TerminalPcs \cup FailedStartPcs
     /\ rec[j].lock \notin {"pending", "releasing"}

\* C13: once a recording has been stopped and every pending request has settled, no
\* input device is live and no wake lock is held.
C13_NothingHeldAfterStop ==
  (AllSettled /\ \E i \in DOMAIN rec : rec[i].pc \in TerminalPcs) =>
     \A j \in DOMAIN rec : rec[j].track # "live" /\ rec[j].lock # "held"

\* C14: the step in which startRecording fails (getUserMedia rejected, no supported
\* encoding, recorder construction or start threw) leaves the status IDLE, no input
\* device live and no recorder recording.
C14_FailedStartLeavesIdle ==
  [][\A i \in DOMAIN rec :
       (Resumes(i) /\ rec'[i].pc \in FailedStartPcs) =>
          /\ status' = "IDLE"
          /\ \A j \in DOMAIN rec : rec'[j].track # "live" /\ rec'[j].pc # "recording"]_vars

\* ------------------------------------------------------ folder access claims
\* the "Enter PIN to Unlock" button of the locked panel (586-591) is never
\* reachable: whenever the panel is shown the PIN modal lies over it
LockedPanelIsCovered == isViewLocked => pinModal # NoModal

\* the ids of the existing folders, and the notes that reference a folder
folderIdsOf(fs) == {fs[k].id : k \in 1..Len(fs)}
NotesIn(folderId) == {notes[k].id : k \in {j \in 1..Len(notes) : notes[j].folderId = folderId}}

\* C15: in the views "all", "favorites" and every folder view, under every query and
\* sort order, no listed note is in a locked folder; and a note is listed in "all"
\* (empty query) exactly when its folder is not locked, so a note of a PIN folder is
\* left out while the folder is locked and listed once it is unlocked.
C15_LockedNotesNotListed ==
  /\ \A view \in {"all", "favorites"} \cup FolderIds, q \in SearchInputs, sort \in SortOptions :
       \A n \in RangeOf(filteredAndSortedNotes(view, q, sort)) : ~isFolderLocked(n.folderId)
  /\ \A k \in 1..Len(notes), sort \in SortOptions :
       (notes[k] \in RangeOf(filteredAndSortedNotes("all", "", sort)))
         <=> ~isFolderLocked(notes[k].folderId)

\* a note of a PIN folder is listed in "all" after the PIN was entered, while the
\* session before the reload had it locked
C15_Witness ==
  /\ lastPinResult = "unlocked"
  /\ \E k \in 1..Len(notes) :
       /\ hasFolder(folders, notes[k].folderId)
       /\ findFolder(folders, notes[k].folderId).pin = "1234"
       /\ notes[k] \in RangeOf(filteredAndSortedNotes("all", "", sortBy))

\* the ids of the notes that some view lists (empty query)
ListedIds ==
  UNION {NoteIdsOf(filteredAndSortedNotes(view, "", sortBy)) :
           view \in BuiltinViews \cup folderIdsOf(folders)}

\* C16: a note of a locked folder is listed by no view until the PIN of that folder
\* has been entered: the step after which it is listed is a successful unlock of
\* its folder.
C16_HiddenUntilAuthenticated ==
  [][\A k \in 1..Len(notes) :
       (isFolderLocked(notes[k].folderId) /\ notes[k].id \in ListedIds') =>
          /\ pinModal.mode = "enter"
          /\ pinModal.folderId = notes[k].folderId
          /\ \E pin \in Pins : handlePinConfirm(pin)
          /\ notes[k].folderId \in RangeOf(unlockedFolderIds')]_vars

\* C17 as stated: the folder view (empty query) is empty exactly when the folder is
\* locked.
C17_EmptyExactlyWhenLocked ==
  \A x \in folderIdsOf(folders) :
     (filteredAndSortedNotes(x, "", sortBy) = <<>>) <=> isFolderLocked(x)

\* C17 amended: the folder view (empty query) is empty when the folder is locked,
\* and otherwise lists exactly the notes that reference the folder, each once.
C17_FolderViewLockedOrAll ==
  \A x \in folderIdsOf(folders), sort \in SortOptions :
     LET result == filteredAndSortedNotes(x, "", sort) IN
       IF isFolderLocked(x)
         THEN result = <<>>
         ELSE /\ NoteIdsOf(result) = NotesIn(x)
              /\ Len(result) = Cardinality(NotesIn(x))

\* a locked folder that notes reference
C17_Witness ==
  \E x \in folderIdsOf(folders) :
     /\ isFolderLocked(x)
     /\ NotesIn(x) # {}
     /\ activeView = x

C19_WrongPinChangesNothing ==
  [][\A pin \in Pins, f \in FolderIds :
       (/\ pinModal.mode = "enter"
        /\ pinModal.folderId = f
        /\ handlePinConfirm(pin)
        /\ ~(hasFolder(folders, f) /\ findFolder(folders, f).pin = pin)) =>
          /\ unlockedFolderIds' = unlockedFolderIds
          /\ folders' = folders
          /\ isFolderLocked(f) => isFolderLocked(f)']_vars

\* a wrong PIN was entered for a locked folder, which is still locked
C19_Witness ==
  /\ lastPinResult = "wrong"
  /\ pinModal.error = "Incorrect PIN"
  /\ isFolderLocked(pinModal.folderId)

\* C20: confirming the modal in mode 'set' gives the folder the PIN and adds it to
\* unlockedFolderIds in the same step, after which the folder is not locked and its
\* view lists its notes; and within a session (no reload) a folder that is not locked
\* never becomes locked.
C20_SetPinUnlocks ==
  [][/\ \A pin \in Pins, f \in FolderIds :
          (pinModal.mode = "set" /\ pinModal.folderId = f /\ handlePinConfirm(pin)) =>
             /\ hasFolder(folders', f)
             /\ findFolder(folders', f).pin = pin
             /\ f \in RangeOf(unlockedFolderIds')
             /\ ~isFolderLocked(f)'
             /\ NoteIdsOf(filteredAndSortedNotes(f, "", sortBy))' = NotesIn(f)
     /\ \A g \in FolderIds : (~isFolderLocked(g) /\ ~reload) => ~isFolderLocked(g)']_vars

\* a PIN was just set on a folder that holds a note, and the folder view lists it
C20_Witness ==
  /\ lastPinResult = "set"
  /\ \E x \in folderIdsOf(folders) :
       /\ findFolder(folders, x).pin # Undefined
       /\ x \in RangeOf(unlockedFolderIds)
       /\ NotesIn(x) # {}
       /\ NoteIdsOf(filteredAndSortedNotes(x, "", sortBy)) = NotesIn(x)

C23_DanglingIsUncategorized ==
  \A k \in 1..Len(notes) :
     (notes[k].folderId # Undefined /\ ~hasFolder(folders, notes[k].folderId)) =>
        /\ notes[k] \in RangeOf(filteredAndSortedNotes("uncategorized", "", sortBy))
        /\ notes[k] \in RangeOf(filteredAndSortedNotes("all", "", sortBy))

\* the ids of the notes that a deleteNote invocation in flight is deleting
Deleting == {d.id : d \in deletes}

\* C24: when a deleteNote invocation for a note of the list ends, exactly one entry
\* has left the list, the one with that id, the others are unchanged and in the same
\* order, and the one blob delete it issued, for that same id, has been carried out.
C24_DeleteRemovesExactlyOne ==
  [][\A id \in NoteIdRange :
       (id \in Deleting /\ id \notin Deleting' /\ id \in NoteIdsOf(notes)) =>
          /\ Len(notes') = Len(notes) - 1
          /\ notes' = SelectSeq(notes, LAMBDA n : n.id # id)
          /\ id \notin blobStore']_vars

\* C25: when the blob delete of a deleteNote invocation fails, the note is removed
\* from the list all the same.
C25_NoteRemovedWhenBlobDeleteFails ==
  [][\A id \in NoteIdRange :
       (id \in NoteIdsOf(notes) /\ deleteAudioBlobReject(id)) =>
          id \notin NoteIdsOf(notes')]_vars

\* the position of a note in a list, and whether two notes are in the same
\* partition (both pinned or both not pinned)
PositionIn(list, n) == CHOOSE k \in 1..Len(list) : list[k] = n
SamePartition(a, b) == isPinnedOf(a) <=> isPinnedOf(b)

\* C26: in the list of the main view, under each of the five sort orders, no pinned
\* note comes after a note that is not pinned; a note without the isPinned flag
\* counts as not pinned.
C26_PinnedFirst ==
  \A sort \in SortOptions :
     LET result == filteredAndSortedNotes(activeView, searchQuery, sort) IN
       \A i, j \in 1..Len(result) :
          (i < j /\ "isPinned" \in DOMAIN result[j] /\ result[j].isPinned) =>
             ("isPinned" \in DOMAIN result[i] /\ result[i].isPinned)

\* the stored list holds a pinned note behind a note without the flag, and the main
\* view lists the pinned one before it
C26_Witness ==
  LET result == filteredAndSortedNotes(activeView, searchQuery, sortBy) IN
    \E i, j \in 1..Len(notes) :
       /\ i < j
       /\ "isPinned" \notin DOMAIN notes[i]
       /\ isPinnedOf(notes[j])
       /\ notes[i] \in RangeOf(result)
       /\ notes[j] \in RangeOf(result)
       /\ PositionIn(result, notes[j]) < PositionIn(result, notes[i])

\* the notes that pass the text filter of the view "all" when no folder is locked
PassingAll(query) ==
  SelectSeq(notes, LAMBDA n :
              \/ trim(query) = ""
              \/ includes(toLowerCase(n.title), toLowerCase(query))
              \/ includes(toLowerCase(n.transcription), toLowerCase(query)))

\* the position of a title in a case-insensitive alphabetical order
caseInsensitiveRank(t) ==
  CASE t \in {"apple", "Apple"} -> 1 [] t = "Banana" -> 2 [] t = "Cherry" -> 3

\* the sort key comparison C27 names: negative when a comes first, zero when the
\* keys are equal; titles are compared by alphabetical(a.title, b.title)
KeyCompare(a, b, sort, alphabetical(_, _)) ==
  CASE sort = "newest" -> b.timestamp - a.timestamp
    [] sort = "oldest" -> a.timestamp - b.timestamp
    [] sort = "longest" -> b.duration - a.duration
    [] sort = "shortest" -> a.duration - b.duration
    [] sort = "alphabetical" -> alphabetical(a.title, b.title)

\* the list of the view "all" is a permutation of the notes that pass the filters;
\* within the pinned and within the unpinned notes it is in key order, and notes of
\* equal key are in the order of the stored list
SortedByKey(alphabetical(_, _)) ==
  \A sort \in SortOptions :
     LET result == filteredAndSortedNotes("all", searchQuery, sort)
         input == PassingAll(searchQuery)
     IN /\ Len(result) = Len(input)
        /\ RangeOf(result) = RangeOf(input)
        /\ \A i, j \in 1..Len(result) :
             (i < j /\ SamePartition(result[i], result[j])) =>
                /\ KeyCompare(result[i], result[j], sort, alphabetical) <= 0
                /\ KeyCompare(result[i], result[j], sort, alphabetical) = 0 =>
                     PositionIn(input, result[i]) < PositionIn(input, result[j])

\* C27 as stated: the alphabetical key is the title in a case-insensitive order, so
\* that titles which differ in case only are equal keys and keep their input order.
C27_SortedCaseInsensitive ==
  SortedByKey(LAMBDA a, b : caseInsensitiveRank(a) - caseInsensitiveRank(b))

\* C27 amended: the alphabetical key is the title in the order of localeCompare,
\* where titles that differ in case only are different keys.
C27_SortedByKeyStable == SortedByKey(localeCompare)

\* the stored list is Banana, apple, Cherry with only Cherry pinned, all three of
\* the same timestamp; the alphabetical list is Cherry, apple, Banana and the
\* newest-first list is Cherry, Banana, apple
C27_Witness ==
  /\ [k \in 1..Len(notes) |-> notes[k].title] = <<"Banana", "apple", "Cherry">>
  /\ [k \in 1..Len(notes) |-> isPinnedOf(notes[k])] = <<FALSE, FALSE, TRUE>>
  /\ \A k \in 1..Len(notes) : notes[k].timestamp = notes[1].timestamp
  /\ searchQuery = ""
  /\ LET alpha == filteredAndSortedNotes("all", "", "alphabetical")
         newest == filteredAndSortedNotes("all", "", "newest")
     IN /\ [k \in 1..Len(alpha) |-> alpha[k].title] = <<"Cherry", "apple", "Banana">>
        /\ [k \in 1..Len(newest) |-> newest[k].title] = <<"Cherry", "Banana", "apple">>

\* this step keeps the length and the order of the list, changes no note but the
\* one with the given id, and of that note changes no field outside `fields`
UpdatesOnly(id, fields) ==
  /\ Len(notes') = Len(notes)
  /\ \A k \in 1..Len(notes) :
       IF notes[k].id = id
         THEN /\ DOMAIN notes'[k] = DOMAIN notes[k] \cup fields
              /\ \A f \in DOMAIN notes[k] \ fields : notes'[k][f] = notes[k][f]
         ELSE notes'[k] = notes[k]

\* C28: every update of a note by id (pin, favorite, retitle) leaves the number and
\* the order of the notes and every other note as they were, and in the note with
\* that id changes the given fields to the given values and no other field; an
\* update for an id that no note has leaves the list unchanged.
C28_UpdateMergesOneNote ==
  [][\A id \in NoteIdRange :
       /\ onTogglePin(id) =>
            /\ UpdatesOnly(id, {"isPinned"})
            /\ \A k \in 1..Len(notes) :
                 notes[k].id = id => (notes'[k].isPinned <=> ~isPinnedOf(notes[k]))
       /\ toggleFavorite(id) =>
            /\ UpdatesOnly(id, {"isFavorite"})
            /\ \A k \in 1..Len(notes) :
                 notes[k].id = id => (notes'[k].isFavorite <=> ~notes[k].isFavorite)
       /\ \A ok \in BOOLEAN :
            reTitleNoteReturn(id, ok) =>
              /\ UpdatesOnly(id, {"title"})
              /\ \A k \in 1..Len(notes) :
                   notes[k].id = id => notes'[k].title = reTitleNote(id, ok)
              /\ id \notin NoteIdsOf(notes) => notes' = notes]_vars

\* a retitle that was started on a note returned after the note had been deleted,
\* and the other note, retitled too, is the only note of the list
C28_Witness ==
  /\ Len(notes) = 1
  /\ \E c \in cardCalls :
       /\ c.op = "retitle" /\ c.state = "done" /\ ~c.found
       /\ c.id \notin NoteIdsOf(notes)
  /\ \E c \in cardCalls :
       /\ c.op = "retitle" /\ c.state = "done" /\ c.found
       /\ c.id = notes[1].id
       /\ notes[1].title # suggestedTitle(notes[1].id)

\* C29: between two handlers (the persistence effects of a handler run before the
\* next handler) the notes and the folders read back from localStorage are the notes
\* and the folders in memory, in the same order.
C29_PersistedEqualsMemory ==
  /\ loadNotes = notes
  /\ loadFolders = folders

\* which strings of the model are four decimal digits
isFourDigits(t) == t \in {"1234", "0000"}

\* C30: the PIN of every folder that has one, in memory and as read back from
\* localStorage, is four decimal digits.
C30_PinIsFourDigits ==
  /\ \A k \in 1..Len(folders) : folders[k].pin # Undefined => isFourDigits(folders[k].pin)
  /\ \A k \in 1..Len(loadFolders) :
       loadFolders[k].pin # Undefined => isFourDigits(loadFolders[k].pin)

\* a folder got the PIN 1234 from the dialog, and the dialog, opened on it again,
\* has turned down the four digits 0000
C30_Witness ==
  /\ lastPinResult = "wrong"
  /\ pinModal.mode = "enter"
  /\ pinModal.pin = "0000"
  /\ \E k \in 1..Len(folders) :
       folders[k].id = pinModal.folderId /\ folders[k].pin = "1234"

\* C31: no step writes unlockedFolderIds to localStorage: what is stored under the
\* two keys changes only with the notes and the folders, and holds nothing but the
\* fields of the notes and of the folders. A reload empties unlockedFolderIds and
\* brings the notes and the folders (with their PINs) back from localStorage as they
\* were, so that every folder with a PIN is locked after it.
C31_UnlockedSetIsSessionState ==
  [][/\ DOMAIN localStorage' = {"notes", "folders"}
     /\ (notes' = notes /\ folders' = folders /\ ~reload) => localStorage' = localStorage
     /\ \A k \in 1..Len(loadFolders') : DOMAIN loadFolders'[k] = {"id", "pin"}
     /\ reload =>
          /\ unlockedFolderIds' = <<>>
          /\ notes' = loadNotes /\ notes' = notes
          /\ folders' = loadFolders /\ folders' = folders
          /\ \A k \in 1..Len(folders) :
               folders[k].pin # Undefined => isFolderLocked(folders[k].id)']_vars

\* after a reload a folder that has a PIN and holds a note is locked, and
\* unlockedFolderIds is empty
C31_Witness ==
  /\ lastPinResult = "none"
  /\ unlockedFolderIds = <<>>
  /\ \E k \in 1..Len(folders) :
       /\ folders[k].pin # Undefined
       /\ isFolderLocked(folders[k].id)
       /\ NotesIn(folders[k].id) # {}

\* C38: in every state, the ttsStatus of a card is idle exactly when its
\* activeTtsSection is unset.
C38_IdleIffNoActiveSection ==
  \A n \in CardIds : (ttsStatus[n] = "idle") <=> (activeTtsSection[n] = Undefined)

\* C33: in every state and for every card that is shown, stopTts applied to the
\* state stopTts yields changes nothing more; applied to a card that is idle with
\* no active section and no source in its ref, it leaves the card idle with no
\* active section and changes the state of no source.
C33_StopIsIdempotent ==
  \A n \in CardIds : mounted[n] =>
    LET once == stopTts(n, ttsOf(n)) IN
      /\ stopTts(n, once) = once
      /\ once.ttsStatus = "idle" /\ once.activeTtsSection = Undefined
      /\ (ttsStatus[n] = "idle" /\ ttsAudioRef[n] = NoRec) =>
            \A r \in 1..Len(speech) : once.speech[r].state = speech[r].state

\* a card whose source plays is stopped by the start of its recorded playback:
\* the source is stopped, the card is idle with no active section
C33_Witness ==
  \E n \in CardIds :
    /\ mounted[n] /\ isPlaying[n]
    /\ ttsStatus[n] = "idle" /\ activeTtsSection[n] = Undefined
    /\ ttsAudioRef[n] = NoRec
    /\ \E r \in 1..Len(speech) : speech[r].card = n /\ speech[r].state = "stopped"

\* request q of the card of request r was issued after r and is loading or playing
NewerReadAloud(r, q) ==
  /\ q > r
  /\ speech[q].card = speech[r].card
  /\ speech[q].live
  /\ speech[q].state \in {"pending", "playing"}

\* C32: when the source of a card's latest read-aloud plays to its end, the card
\* becomes idle and its active section is cleared; the ended event of a source that
\* a newer read-aloud of the same card has replaced leaves the ttsStatus and the
\* activeTtsSection of that card as they are.
C32_EndOfReplacedSourceIsIgnored ==
  [][\A r \in 1..Len(speech) :
       (sourceEnded(r) /\ speech[r].live) =>
         IF \E q \in 1..Len(speech) : NewerReadAloud(r, q)
           THEN /\ ttsStatus'[speech[r].card] = ttsStatus[speech[r].card]
                /\ activeTtsSection'[speech[r].card] = activeTtsSection[speech[r].card]
           ELSE /\ ttsStatus'[speech[r].card] = "idle"
                /\ activeTtsSection'[speech[r].card] = Undefined]_vars

\* C35: when audioContext.resume() of an initAudio call returns after the cleanup of
\* its effect ran, the context of the call is closed in that step, no frame is
\* scheduled and the call does not draw.
C35_AbortedInitClosesContext ==
  [][\A e \in 1..Len(visRuns) :
       (resumeResolve(e) /\ visRuns[e].isAborted) =>
         /\ visRuns'[e].ctx = "closed"
         /\ visRuns'[e].pc # "drawing"
         /\ animationRef' = NoRec]_vars

\* C34: the context of an initAudio call whose effect was cleaned up, the contexts
\* of an AudioVisualizer that was removed and the context of a card that was removed
\* are closed.
C34_NoContextOutlivesOwner ==
  /\ \A e \in 1..Len(visRuns) :
       (visRuns[e].isAborted \/ ~visRuns[e].live) => visRuns[e].ctx = "closed"
  /\ \A r \in 1..Len(speech) : ~speech[r].live => speech[r].inst \notin ttsContexts

C39_EveryNoteHasBlob ==
  \A k \in 1..Len(notes) : notes[k].id \in blobStore

\* a note card's update returns in this step for note id
UpdateReturns(id) ==
  \/ \E ok \in BOOLEAN : reTitleNoteReturn(id, ok)
  \/ \E hasText \in BOOLEAN : translateTextResolve(id, hasText)
  \/ translateTextReject(id)

\* C40: no step brings an id into the list that the list does not hold, so an id
\* that deleteNote removed never comes back; a retitle or a translation that was
\* started while the note was in the list and returns after its deletion leaves the
\* list as it is.
C40_DeletedNoteStaysDeleted ==
  [][\A id \in NoteIdRange :
       id \notin NoteIdsOf(notes) =>
         /\ id \notin NoteIdsOf(notes')
         /\ UpdateReturns(id) => notes' = notes]_vars

\* a translation returned with its text after its note was deleted, and the other
\* note is still in the list
C40_Witness ==
  \E c \in cardCalls :
    /\ c.op = "translate" /\ c.state = "done" /\ ~c.found
    /\ c.id \notin NoteIdsOf(notes)
    /\ c.id \notin blobStore
    /\ notes # <<>>

\* the translation of note id that is under way
PendingTranslate(id) ==
  CHOOSE c \in cardCalls : c.id = id /\ c.op = "translate" /\ c.state = "pending"

\* a translation that fails leaves the list as it is and clears isTranslating; one
\* that succeeds sets the translated text and the language label of the note in
\* one step and clears isTranslating
TranslateCommitsWhole ==
  \A id \in NoteIdRange :
    /\ translateTextReject(id) => (notes' = notes /\ ~isTranslating(id)')
    /\ \A hasText \in BOOLEAN :
         translateTextResolve(id, hasText) =>
           /\ ~isTranslating(id)'
           /\ \A k \in 1..Len(notes) :
                IF notes[k].id = id
                  THEN /\ notes'[k].translatedTranscription
                            = translateText(PendingTranslate(id).langName, hasText)
                       /\ notes'[k].translatedLanguage = PendingTranslate(id).langName
                  ELSE notes'[k] = notes[k]

\* a read-aloud whose speech synthesis or decoding fails leaves its card idle, with
\* no active section and with no source of the card playing
ReadAloudFailureIsSilent ==
  \A r \in 1..Len(speech) :
    (generateSpeechReject(r) /\ speech[r].live) =>
      /\ ttsStatus'[speech[r].card] = "idle"
      /\ activeTtsSection'[speech[r].card] = Undefined
      /\ \A q \in 1..Len(speech) :
           speech'[q].card = speech[r].card => speech'[q].state # "playing"

\* C36: a failed external call commits nothing in part: a failed translation
\* changes no note and clears isTranslating, a failed read-aloud leaves the card
\* idle with no active section and nothing playing, and a translation that
\* succeeds sets the translated text and the language label in one update.
C36_NoPartialCommit == [][TranslateCommitsWhole /\ ReadAloudFailureIsSilent]_vars

====
